---- MODULE Spec2Model ----
(***************************************************************************)
(* DiscoveryProviderSelector: health-scored selection of a discovery       *)
(* provider with backup fallback and a timed "regressed mode".             *)
(*                                                                         *)
(* The selector's fields (currentVersion, validVersions, regressedMode,    *)
(* backups, decisionTree), the timers created by setTimeout, the on-chain  *)
(* version registry and the position of the select() call in flight are    *)
(* the state.  One action per step between two awaits of select().         *)
(***************************************************************************)
EXTENDS Integers, Sequences, FiniteSets, TLC

(* ------------------------------ bounds --------------------------------- *)
NumEndpoints == 2      \* registered providers that may appear in a roster
MaxTimers == 2         \* setTimeout timers that may be pending at once
\* Candidates in the roster of the second of two overlapping select() calls
SecondRosterMax == 1

(* ------------------------- program constants --------------------------- *)
UNHEALTHY_BLOCK_DIFF == 100
REGRESSED_MODE_TIMEOUT == 2
PREVIOUS_VERSIONS_TO_CHECK == 5
MAX_COUNT == 50000
DISCOVERY_SERVICE_NAME == "discovery-node"

NULL == "null"

(* ----------------------------- universes ------------------------------- *)
EndpointNames == <<"https://dn1", "https://dn2", "https://dn3", "https://dn4">>
Endpoints == {EndpointNames[k] : k \in 1..NumEndpoints}

\* The versions governance registers on chain over time, in registration
\* order (index 0 first); the first two are registered at the start.
ChainVersions == <<"1.1.9", "1.2.3", "1.3.1">>

\* What a probed node may report.
ResponseVersions == {"1.1.9", "1.2.2", "1.2.3", "1.3.0", "garbage"}
ResponseStatuses == {200, 500}
ResponseServices == {"discovery-node", "content-node"}
ResponseBlockDiffs == {50, 200, 1000}
\* plays.tx_info.slot_diff; <<>> when plays or plays.tx_info is absent
ResponseSlotDiffs == {<<>>, <<9>>}

Responses ==
    [status : ResponseStatuses, service : ResponseServices,
     version : ResponseVersions, block_difference : ResponseBlockDiffs,
     slot_diff : ResponseSlotDiffs]

\* config.unhealthySlotDiffPlays: null, never set (undefined), or a number
SlotThresholds ==
    {[kind |-> "null", value |-> 0], [kind |-> "undefined", value |-> 0],
     [kind |-> "number", value |-> 5]}

\* The configuration the selector is constructed with: a slot threshold and a
\* selection callback.  Every step a selector without them can take, this
\* one can take too (no slot_diff reported, callback returning normally).
ConfiguredSlotThreshold == [kind |-> "number", value |-> 5]
ConfiguredSelectionCallback == "set"

(* ------------------------------- semver -------------------------------- *)
\* semver's parse of a reported string: <<major, minor, patch>>, or <<>>
\* when the string is no semantic version.
SemverParse(s) ==
    CASE s = "1.1.9" -> <<1, 1, 9>>
      [] s = "1.2.2" -> <<1, 2, 2>>
      [] s = "1.2.3" -> <<1, 2, 3>>
      [] s = "1.3.0" -> <<1, 3, 0>>
      [] s = "1.3.1" -> <<1, 3, 1>>
      [] OTHER -> <<>>

SemverValid(s) == SemverParse(s) # <<>>
SemverMajor(s) == SemverParse(s)[1]
SemverMinor(s) == SemverParse(s)[2]
SemverPatch(s) == SemverParse(s)[3]

\* semver.compare: -1, 0 or 1
SemverCompare(a, b) ==
    LET pa == SemverParse(a)
        pb == SemverParse(b)
    IN  IF pa[1] # pb[1] THEN (IF pa[1] < pb[1] THEN -1 ELSE 1)
        ELSE IF pa[2] # pb[2] THEN (IF pa[2] < pb[2] THEN -1 ELSE 1)
        ELSE IF pa[3] # pb[3] THEN (IF pa[3] < pb[3] THEN -1 ELSE 1)
        ELSE 0

\* Mutation: the ascending comparison handed to sort
SemverRcompare_Ascending(a, b) == SemverCompare(a, b)

SemverRcompare(a, b) == SemverCompare(b, a)

\* ethContracts.hasSameMajorAndMinorVersion
HasSameMajorAndMinorVersion(a, b) ==
    /\ SemverMajor(a) = SemverMajor(b)
    /\ SemverMinor(a) = SemverMinor(b)

(* ------------------------------ isHealthy ------------------------------ *)
\* Mutation: a threshold that was never set rejects every slot-diff
SlotDiffUnhealthy_UnsetThresholdRejects(slotDiff, threshold) ==
    /\ slotDiff # <<>>
    /\ threshold.kind # "null"
    /\ \/ threshold.kind = "undefined"
       \/ threshold.kind = "number" /\ slotDiff[1] > threshold.value

\* The plays check of isHealthy: slotDiffPlays !== null &&
\* this.unhealthySlotDiffPlays !== null && slotDiffPlays > this.unhealthySlotDiffPlays.
\* A comparison with undefined is false in JavaScript.
SlotDiffUnhealthy(slotDiff, threshold) ==
    /\ slotDiff # <<>>
    /\ threshold.kind # "null"
    /\ threshold.kind = "number"
    /\ slotDiff[1] > threshold.value

\* Mutation: a valid version of another major.minor is kept as a backup
IsHealthyVerdict_BackupOnMismatch(response, curVersion, threshold) ==
    IF response.status # 200 THEN "unhealthy"
    ELSE IF response.service # DISCOVERY_SERVICE_NAME THEN "unhealthy"
    ELSE IF ~SemverValid(response.version) THEN "unhealthy"
    ELSE IF ~HasSameMajorAndMinorVersion(curVersion, response.version) THEN "backup"
    ELSE IF SemverPatch(response.version) < SemverPatch(curVersion) THEN "backup"
    ELSE IF response.block_difference > UNHEALTHY_BLOCK_DIFF THEN "backup"
    ELSE IF SlotDiffUnhealthy(response.slot_diff, threshold) THEN "backup"
    ELSE "healthy"

\* Mutation: the service name is not checked
IsHealthyVerdict_NoServiceCheck(response, curVersion, threshold) ==
    IF response.status # 200 THEN "unhealthy"
    ELSE IF ~SemverValid(response.version) THEN "unhealthy"
    ELSE IF ~HasSameMajorAndMinorVersion(curVersion, response.version) THEN "unhealthy"
    ELSE IF SemverPatch(response.version) < SemverPatch(curVersion) THEN "backup"
    ELSE IF response.block_difference > UNHEALTHY_BLOCK_DIFF THEN "backup"
    ELSE IF SlotDiffUnhealthy(response.slot_diff, threshold) THEN "backup"
    ELSE "healthy"

\* Mutation: a response with a bad status is kept as a backup
IsHealthyVerdict_BackupOnBadStatus(response, curVersion, threshold) ==
    IF response.status # 200 THEN "backup"
    ELSE IF response.service # DISCOVERY_SERVICE_NAME THEN "unhealthy"
    ELSE IF ~SemverValid(response.version) THEN "unhealthy"
    ELSE IF ~HasSameMajorAndMinorVersion(curVersion, response.version) THEN "unhealthy"
    ELSE IF SemverPatch(response.version) < SemverPatch(curVersion) THEN "backup"
    ELSE IF response.block_difference > UNHEALTHY_BLOCK_DIFF THEN "backup"
    ELSE IF SlotDiffUnhealthy(response.slot_diff, threshold) THEN "backup"
    ELSE "healthy"

\* Mutation: a provider behind on patch is dropped without a backup
IsHealthyVerdict_PatchBehindDropped(response, curVersion, threshold) ==
    IF response.status # 200 THEN "unhealthy"
    ELSE IF response.service # DISCOVERY_SERVICE_NAME THEN "unhealthy"
    ELSE IF ~SemverValid(response.version) THEN "unhealthy"
    ELSE IF ~HasSameMajorAndMinorVersion(curVersion, response.version) THEN "unhealthy"
    ELSE IF SemverPatch(response.version) < SemverPatch(curVersion) THEN "unhealthy"
    ELSE IF response.block_difference > UNHEALTHY_BLOCK_DIFF THEN "backup"
    ELSE IF SlotDiffUnhealthy(response.slot_diff, threshold) THEN "backup"
    ELSE "healthy"

\* Mutation: a block lag equal to the threshold is rejected
IsHealthyVerdict_LagAtThresholdRejected(response, curVersion, threshold) ==
    IF response.status # 200 THEN "unhealthy"
    ELSE IF response.service # DISCOVERY_SERVICE_NAME THEN "unhealthy"
    ELSE IF ~SemverValid(response.version) THEN "unhealthy"
    ELSE IF ~HasSameMajorAndMinorVersion(curVersion, response.version) THEN "unhealthy"
    ELSE IF SemverPatch(response.version) < SemverPatch(curVersion) THEN "backup"
    ELSE IF response.block_difference >= UNHEALTHY_BLOCK_DIFF THEN "backup"
    ELSE IF SlotDiffUnhealthy(response.slot_diff, threshold) THEN "backup"
    ELSE "healthy"

\* The checks of isHealthy in the order of the code, first match deciding:
\* "unhealthy" is return false without addBackup, "backup" is addBackup and
\* return false, "healthy" is return true.
IsHealthyVerdict(response, curVersion, threshold) ==
    IF response.status # 200 THEN "unhealthy"
    ELSE IF response.service # DISCOVERY_SERVICE_NAME THEN "unhealthy"
    ELSE IF ~SemverValid(response.version) THEN "unhealthy"
    ELSE IF ~HasSameMajorAndMinorVersion(curVersion, response.version) THEN "unhealthy"
    ELSE IF SemverPatch(response.version) < SemverPatch(curVersion) THEN "backup"
    ELSE IF response.block_difference > UNHEALTHY_BLOCK_DIFF THEN "backup"
    ELSE IF SlotDiffUnhealthy(response.slot_diff, threshold) THEN "backup"
    ELSE "healthy"

\* isHealthy's return value
IsHealthy(response, curVersion, threshold) ==
    IsHealthyVerdict(response, curVersion, threshold) = "healthy"

\* The backups map is a JavaScript object with URL keys: Object.keys lists
\* them in insertion order, and assigning an existing key keeps its place.
BackupRecord(service, response) ==
    [endpoint |-> service, version |-> response.version,
     block_difference |-> response.block_difference]

AddBackup(bk, service, response) ==
    IF \E k \in 1..Len(bk) : bk[k].endpoint = service
    THEN [k \in 1..Len(bk) |->
            IF bk[k].endpoint = service THEN BackupRecord(service, response) ELSE bk[k]]
    ELSE Append(bk, BackupRecord(service, response))

(* --------------------------- selectFromBackups ------------------------- *)
\* Mutation: the filter lets every version through
IsVersionOk_AcceptAll(version, valid) == TRUE

\* isVersionOk: some valid version has the backup's major and minor
IsVersionOk(version, valid) ==
    \E k \in 1..Len(valid) : HasSameMajorAndMinorVersion(valid[k], version)

\* The backups that pass the filter, in Object.keys order
FilteredBackups(bk, valid) ==
    SelectSeq(bk, LAMBDA b : IsVersionOk(b.version, valid))

\* Array.prototype.sort is stable: an element goes before the first element
\* it must precede, after every element it compares equal to.
RECURSIVE InsertVersion(_, _)
InsertVersion(v, sorted) ==
    IF sorted = <<>> THEN <<v>>
    ELSE IF SemverRcompare(v, Head(sorted)) < 0 THEN <<v>> \o sorted
    ELSE <<Head(sorted)>> \o InsertVersion(v, Tail(sorted))

RECURSIVE SortVersions(_)
SortVersions(vs) ==
    IF vs = <<>> THEN <<>>
    ELSE InsertVersion(vs[Len(vs)], SortVersions(SubSeq(vs, 1, Len(vs) - 1)))

\* versions.sort(semver.rcompare) over the versions of the filtered backups
SortedVersions(filtered) ==
    SortVersions([k \in 1..Len(filtered) |-> filtered[k].version])

\* The endpoints versionMap holds under one version string, in recording order
VersionMapEntry(filtered, version) ==
    SelectSeq(filtered, LAMBDA b : b.version = version)

\* First endpoint of versionMap[version] whose block_difference is under the threshold
FirstUnderThreshold(entry) ==
    LET ok == {k \in 1..Len(entry) : entry[k].block_difference < UNHEALTHY_BLOCK_DIFF}
    IN  IF ok = {} THEN NULL
        ELSE entry[CHOOSE k \in ok : \A j \in ok : k <= j].endpoint

\* The loop over sortedVersions: the first version that yields an endpoint
NewestVersionPick(filtered) ==
    LET sorted == SortedVersions(filtered)
        hits == {k \in 1..Len(sorted) :
                    FirstUnderThreshold(VersionMapEntry(filtered, sorted[k])) # NULL}
    IN  IF hits = {} THEN NULL
        ELSE FirstUnderThreshold(
                VersionMapEntry(filtered, sorted[CHOOSE k \in hits : \A j \in hits : k <= j]))

\* String(n): the decimal digits of n, most significant first
RECURSIVE ToDigits(_)
ToDigits(n) ==
    IF n < 10 THEN <<n>> ELSE Append(ToDigits(n \div 10), n % 10)

\* a < b as the default sort compares them: by their strings, code unit by code unit
RECURSIVE DigitsLess(_, _)
DigitsLess(a, b) ==
    IF a = <<>> THEN b # <<>>
    ELSE IF b = <<>> THEN FALSE
    ELSE IF Head(a) # Head(b) THEN Head(a) < Head(b)
    ELSE DigitsLess(Tail(a), Tail(b))

DefaultSortLess(x, y) == DigitsLess(ToDigits(x), ToDigits(y))

RECURSIVE InsertDefault(_, _)
InsertDefault(x, sorted) ==
    IF sorted = <<>> THEN <<x>>
    ELSE IF DefaultSortLess(x, Head(sorted)) THEN <<x>> \o sorted
    ELSE <<Head(sorted)>> \o InsertDefault(x, Tail(sorted))

RECURSIVE DefaultSort(_)
DefaultSort(xs) ==
    IF xs = <<>> THEN <<>>
    ELSE InsertDefault(xs[Len(xs)], DefaultSort(SubSeq(xs, 1, Len(xs) - 1)))

\* blockDiffs.sort()[0], for a non-empty blockDiffs
BestBlockDiff(filtered) ==
    DefaultSort([k \in 1..Len(filtered) |-> filtered[k].block_difference])[1]

\* blockDiffMap[bestBlockDiff][0]
LastResortPick(filtered) ==
    LET best == BestBlockDiff(filtered)
        at == {k \in 1..Len(filtered) : filtered[k].block_difference = best}
    IN  filtered[CHOOSE k \in at : \A j \in at : k <= j].endpoint

\* Mutation: the last resort forgets to call enterRegressedMode
SelectFromBackupsOutcome_NoRegress(bk, valid) ==
    LET filtered == FilteredBackups(bk, valid)
        newest == NewestVersionPick(filtered)
    IN  IF newest # NULL THEN [ret |-> newest, regress |-> FALSE]
        ELSE IF filtered = <<>> THEN [ret |-> "TypeError", regress |-> FALSE]
        ELSE [ret |-> LastResortPick(filtered), regress |-> FALSE]

\* What lines 223-281 do with the backups: the value returned, or "TypeError"
\* when blockDiffMap[undefined][0] throws, and whether enterRegressedMode ran.
SelectFromBackupsOutcome(bk, valid) ==
    LET filtered == FilteredBackups(bk, valid)
        newest == NewestVersionPick(filtered)
    IN  IF newest # NULL THEN [ret |-> newest, regress |-> FALSE]
        ELSE IF filtered = <<>> THEN [ret |-> "TypeError", regress |-> FALSE]
        ELSE [ret |-> LastResortPick(filtered), regress |-> TRUE]

(* ------------------------------- state --------------------------------- *)
\* No isHealthy call is made on its own
NoArguments == [called |-> FALSE]

\* The registry reads of selectFromBackups: how often getNumberOfVersions was
\* called, the indices getVersion was called with, in call order, and
\* whether one of these calls rejected
NoReads == [getNumberOfVersions |-> 0, getVersion |-> <<>>, failed |-> FALSE]
ReadNumberOfVersions(reads) ==
    [reads EXCEPT !.getNumberOfVersions = @ + 1]
ReadVersion(reads, index) ==
    [reads EXCEPT !.getVersion = Append(@, index)]
ReadFailed(reads) == [reads EXCEPT !.failed = TRUE]

(* ------------------------ the content node's queues ------------------- *)
\* Jobs of the AsyncProcessingQueue processed at the same time, each with
\* its own request id, and concurrent callers of the rehydrate add methods
NumJobs == 2
NumAdders == 3
Jobs == 1..NumJobs
Adders == 1..NumAdders

\* Nothing is stored under the key
NoValue == [status |-> "none", resp |-> "none"]
\* A job the queue has not handed to its processor
NoJob == [pc |-> "waiting", outcome |-> "none", caught |-> "none", ret |-> "none",
          writes |-> <<>>]
\* A caller that is not inside an add method
NoAdd == [pc |-> "idle", count |-> 0, ret |-> "none"]

VARIABLES
    regCount,               \* versions registered on chain (the registry's length)
    currentVersion,         \* this.currentVersion
    validVersions,          \* this.validVersions; <<>> stands for null
    backups,                \* this.backups, in Object.keys order
    decisionTree,           \* this.decisionTree
    regressedMode,          \* this.regressedMode
    timers,                 \* pending setTimeout callbacks: ticks left, oldest first
    unhealthySlotDiffPlays, \* this.unhealthySlotDiffPlays
    selectionCallback,      \* "none" or "set"
    pc,                     \* where the select() call in flight stands
    pending,                \* candidates probed and not yet answered
    endpoint,               \* select()'s local: what super.select() resolved to
    result,                 \* what the caller of select() got
    backupRet,              \* what selectFromBackups returned in this round
    numberOfVersions,       \* selectFromBackups' local
    i,                      \* selectFromBackups' loop counter
    priorGenRejects,        \* history: candidates of this round rejected for their
                            \* major.minor although a prior registered version has it
    callbackCalls,          \* history: the selectionCallback calls of this round,
                            \* each with the arguments it was given
    pc2,                    \* a second select() call on the same selector: where it is
    pending2,               \* ... its candidates probed and not yet answered
    endpoint2,              \* ... its local endpoint
    result2,                \* ... what its caller got
    backupRet2,             \* ... what selectFromBackups returned to it
    numberOfVersions2,      \* ... its selectFromBackups' local
    i2,                     \* ... its selectFromBackups' loop counter
    recordedBy,             \* history: per call, the candidates its own probes of
                            \* its current round recorded as backups
    lastRead,               \* what the latest isInRegressedMode() call returned
    isHealthyArgs,          \* an isHealthy call made on its own: its arguments and
                            \* the monitoring configuration it runs under
    isHealthyRet,           \* ... what it returned or threw; "none" before it ran
    registryReads,          \* history: the reads of the version registry made by
                            \* selectFromBackups since construction
    redisStore,             \* redis: what is stored under each job's key
    asyncJobs,              \* AsyncProcessingQueue: the jobs being processed
    queueCount,             \* RehydrateIpfsQueue: what this.queue.count() returns
    adders                  \* ... the add-task calls in flight

vars ==
    <<regCount, currentVersion, validVersions, backups, decisionTree, regressedMode,
      timers, unhealthySlotDiffPlays, selectionCallback, pc, pending, endpoint, result,
      backupRet, numberOfVersions, i, priorGenRejects, callbackCalls,
      pc2, pending2, endpoint2, result2, backupRet2, numberOfVersions2, i2, recordedBy,
      lastRead, isHealthyArgs, isHealthyRet, registryReads,
      redisStore, asyncJobs, queueCount, adders>>

\* The two queues of the content node
queues == <<redisStore, asyncJobs, queueCount, adders>>

\* The discovery provider selector
selector ==
    <<regCount, currentVersion, validVersions, backups, decisionTree, regressedMode,
      timers, unhealthySlotDiffPlays, selectionCallback, pc, pending, endpoint, result,
      backupRet, numberOfVersions, i, priorGenRejects, callbackCalls,
      pc2, pending2, endpoint2, result2, backupRet2, numberOfVersions2, i2, recordedBy,
      lastRead, isHealthyArgs, isHealthyRet, registryReads>>

config == <<unhealthySlotDiffPlays, selectionCallback>>
locals == <<numberOfVersions, i>>
locals2 == <<numberOfVersions2, i2>>
\* the second call's own position and locals
second == <<pc2, pending2, endpoint2, result2, backupRet2, locals2>>
isHealthyCall == <<isHealthyArgs, isHealthyRet>>
\* the first call's own position and locals
first == <<pc, pending, endpoint, result, backupRet, locals, priorGenRejects, callbackCalls>>

\* constructor: lines 57-65, and the base class's empty backups and trace
\* No job is being processed and no task is being added
QueuesIdle ==
    /\ redisStore = [j \in Jobs |-> NoValue]
    /\ asyncJobs = [j \in Jobs |-> NoJob]
    /\ queueCount = 0
    /\ adders = [a \in Adders |-> NoAdd]

Init ==
    /\ regCount = 2
    /\ currentVersion = NULL
    /\ validVersions = <<>>
    /\ backups = <<>>
    /\ decisionTree = <<>>
    /\ regressedMode = FALSE
    /\ timers = <<>>
    /\ unhealthySlotDiffPlays = ConfiguredSlotThreshold
    /\ selectionCallback = ConfiguredSelectionCallback
    /\ pc = "idle"
    /\ pending = {}
    /\ endpoint = "pending"
    /\ result = "pending"
    /\ backupRet = "none"
    /\ numberOfVersions = 0
    /\ i = 0
    /\ priorGenRejects = {}
    /\ callbackCalls = <<>>
    /\ pc2 = "idle"
    /\ pending2 = {}
    /\ endpoint2 = "pending"
    /\ result2 = "pending"
    /\ backupRet2 = "none"
    /\ numberOfVersions2 = 0
    /\ i2 = 0
    /\ recordedBy = [c \in 1..2 |-> {}]
    /\ lastRead = "none"
    /\ isHealthyArgs = NoArguments
    /\ isHealthyRet = "none"
    /\ registryReads = NoReads
    /\ QueuesIdle

(* ------------------------------ registry ------------------------------- *)
\* The registry over a longer life: the versions of ChainVersions and the
\* ones registered after them, index 0 first.
RegistryHistory == ChainVersions \o <<"1.3.2", "1.4.0", "1.4.1", "1.5.0", "1.5.1">>

\* ethContracts.getCurrentVersion: the latest registered version
GetCurrentVersion == ChainVersions[regCount]
\* ethContracts.getNumberOfVersions
GetNumberOfVersions == regCount
\* ethContracts.getVersion(serviceName, index), index counted from 0
GetVersion(index) == RegistryHistory[index + 1]

\* Governance registers the next version on chain.
RegisterVersion ==
    /\ regCount < Len(ChainVersions)
    /\ regCount' = regCount + 1
    /\ UNCHANGED <<currentVersion, validVersions, backups, decisionTree, regressedMode,
                   config, timers, pc, pending, endpoint, result, backupRet, locals,
                   priorGenRejects,
                   callbackCalls, second, recordedBy,
                   lastRead, isHealthyCall, registryReads, queues>>

(* --------------------------- regressed mode ---------------------------- *)
\* Mutation: enterRegressedMode sets the flag and forgets the setTimeout
EnterRegressedModeTimers_NoTimer(ts) == ts

\* enterRegressedMode's setTimeout: one more pending timer, none cancelled
EnterRegressedModeTimers(ts) == Append(ts, REGRESSED_MODE_TIMEOUT)

IsInRegressedMode == regressedMode

\* A boolean as the caller of isInRegressedMode holds it
Returned(b) == IF b THEN "true" ELSE "false"

\* Mutation: reading the flag acknowledges it, which clears it
IsInRegressedModeCall_Clears ==
    /\ lastRead' = Returned(IsInRegressedMode)
    /\ regressedMode' = FALSE
    /\ UNCHANGED <<regCount, currentVersion, validVersions, backups, decisionTree,
                   config, timers, first, second, recordedBy,
                   isHealthyCall, registryReads, queues>>

\* A caller calls isInRegressedMode(), at any time, also between two awaits
\* of a select() round.
IsInRegressedModeCall ==
    /\ lastRead' = Returned(IsInRegressedMode)
    /\ UNCHANGED <<regCount, currentVersion, validVersions, backups, decisionTree,
                   regressedMode, config, timers, first, second, recordedBy,
                   isHealthyCall, registryReads, queues>>

\* Mutation: the timeout callback runs without clearing the flag
TimerFire_LeavesFlag ==
    /\ timers # <<>>
    /\ Head(timers) = 0
    /\ timers' = Tail(timers)
    /\ UNCHANGED <<regCount, currentVersion, validVersions, backups, decisionTree,
                   regressedMode, config, pc, pending, endpoint, result, backupRet, locals,
                   priorGenRejects,
                   callbackCalls, second, recordedBy,
                   lastRead, isHealthyCall, registryReads, queues>>

\* The timeout callback of enterRegressedMode runs when its delay has elapsed.
TimerFire ==
    /\ timers # <<>>
    /\ Head(timers) = 0
    /\ regressedMode' = FALSE
    /\ timers' = Tail(timers)
    /\ UNCHANGED <<regCount, currentVersion, validVersions, backups, decisionTree,
                   config, pc, pending, endpoint, result, backupRet, locals,
                   priorGenRejects,
                   callbackCalls, second, recordedBy,
                   lastRead, isHealthyCall, registryReads, queues>>

\* One unit of time passes; a timer that is due runs before time moves on.
Tick ==
    /\ \A k \in 1..Len(timers) : timers[k] > 0
    /\ timers' = [k \in 1..Len(timers) |-> timers[k] - 1]
    /\ UNCHANGED <<regCount, currentVersion, validVersions, backups, decisionTree,
                   regressedMode, config, pc, pending, endpoint, result, backupRet, locals,
                   priorGenRejects,
                   callbackCalls, second, recordedBy,
                   lastRead, isHealthyCall, registryReads, queues>>

(* ------------------------------- select -------------------------------- *)
\* Mutation: a new round keeps the backups of the round before
StartSelect_KeepsBackups ==
    /\ pc = "idle"
    /\ \E roster \in SUBSET Endpoints :
        /\ pending' = roster
        /\ pc' = IF roster = {} THEN "callback" ELSE "probing"
        /\ endpoint' = IF roster = {} THEN NULL ELSE "pending"
    /\ currentVersion' = GetCurrentVersion
    /\ decisionTree' = <<>>
    /\ result' = "pending"
    /\ backupRet' = "none"
    /\ priorGenRejects' = {}
    /\ callbackCalls' = <<>>
    /\ recordedBy' = [recordedBy EXCEPT ![1] = {}]
    /\ UNCHANGED <<regCount, validVersions, backups, regressedMode, config, timers,
                   locals, second,
                   lastRead, isHealthyCall, registryReads, queues>>

\* select() begins: the round's backups and trace start empty, getServices
\* stores the current version and returns the roster, every candidate is probed.
\* An empty roster resolves to null without a probe.
StartSelect ==
    /\ pc = "idle"
    /\ \E roster \in SUBSET Endpoints :
        /\ pending' = roster
        /\ pc' = IF roster = {} THEN "callback" ELSE "probing"
        /\ endpoint' = IF roster = {} THEN NULL ELSE "pending"
    /\ currentVersion' = GetCurrentVersion
    /\ backups' = <<>>
    /\ decisionTree' = <<>>
    /\ result' = "pending"
    /\ backupRet' = "none"
    /\ priorGenRejects' = {}
    /\ callbackCalls' = <<>>
    /\ recordedBy' = [recordedBy EXCEPT ![1] = {}]
    /\ UNCHANGED <<regCount, validVersions, regressedMode, config, timers, locals, second,
                   lastRead, isHealthyCall, registryReads, queues>>

\* Where the round goes once candidate e has been dealt with unsuccessfully
AfterReject(e) ==
    /\ pending' = pending \ {e}
    /\ pc' = IF pending \ {e} = {} THEN "backups" ELSE "probing"
    /\ UNCHANGED endpoint

\* The versions registered before the current one, as far back as the
\* selector looks (PREVIOUS_VERSIONS_TO_CHECK).
PriorVersions ==
    {GetVersion(k) : k \in {j \in 0..(regCount - 2) :
                                j >= regCount - 1 - PREVIOUS_VERSIONS_TO_CHECK}}

\* A response that is a discovery node's, with a semantic version whose
\* major.minor is not the current version's but is a prior version's.
OfPriorGeneration(response) ==
    /\ response.status = 200
    /\ response.service = DISCOVERY_SERVICE_NAME
    /\ SemverValid(response.version)
    /\ ~HasSameMajorAndMinorVersion(currentVersion, response.version)
    /\ \E v \in PriorVersions : HasSameMajorAndMinorVersion(v, response.version)

\* A probe answers and isHealthy classifies the response.
Classify ==
    /\ pc = "probing"
    /\ \E e \in pending, response \in Responses :
        LET verdict == IsHealthyVerdict(response, currentVersion, unhealthySlotDiffPlays)
        IN  /\ backups' = IF verdict = "backup"
                          THEN AddBackup(backups, e, response) ELSE backups
            /\ decisionTree' = Append(decisionTree, [candidate |-> e, verdict |-> verdict])
            /\ IF IsHealthy(response, currentVersion, unhealthySlotDiffPlays)
               THEN /\ endpoint' = e
                    /\ pending' = {}
                    /\ pc' = "callback"
               ELSE AfterReject(e)
            /\ priorGenRejects' = IF OfPriorGeneration(response)
                                  THEN priorGenRejects \cup {e} ELSE priorGenRejects
            /\ recordedBy' = IF verdict = "backup"
                             THEN [recordedBy EXCEPT ![1] = @ \cup {e}] ELSE recordedBy
    /\ UNCHANGED <<regCount, currentVersion, validVersions, regressedMode, config,
                   timers, result, backupRet, locals, callbackCalls, second,
                   lastRead, isHealthyCall, registryReads, queues>>

\* Mutation: a failed probe leaves no entry in the decision trace
ProbeError_NoTrace ==
    /\ pc = "probing"
    /\ \E e \in pending : AfterReject(e)
    /\ UNCHANGED <<regCount, currentVersion, validVersions, backups, decisionTree,
                   regressedMode, config, timers, result, backupRet, locals,
                   priorGenRejects, callbackCalls, second, recordedBy,
                   lastRead, isHealthyCall, registryReads, queues>>

\* A probe fails or times out: unhealthy, nothing recorded as backup.
ProbeError ==
    /\ pc = "probing"
    /\ \E e \in pending :
        /\ decisionTree' = Append(decisionTree, [candidate |-> e, verdict |-> "error"])
        /\ AfterReject(e)
    /\ UNCHANGED <<regCount, currentVersion, validVersions, backups, regressedMode,
                   config, timers, result, backupRet, locals, priorGenRejects,
                   callbackCalls, second, recordedBy,
                   lastRead, isHealthyCall, registryReads, queues>>

Min(a, b) == IF a < b THEN a ELSE b

\* Mutation: every selectFromBackups call builds the valid versions anew
BuildValidVersions_Always ==
    /\ pc = "backups"
    /\ validVersions' = <<currentVersion>>
    /\ numberOfVersions' = GetNumberOfVersions
    /\ i' = 0
    /\ pc' = "versions"
    /\ registryReads' = ReadNumberOfVersions(registryReads)
    /\ UNCHANGED <<regCount, currentVersion, backups, decisionTree, regressedMode,
                   config, timers, pending, endpoint, result, backupRet, priorGenRejects,
                   callbackCalls, second, recordedBy,
                   lastRead, isHealthyCall, queues>>

\* selectFromBackups, lines 200-204: the valid versions are built once
BuildValidVersions ==
    /\ pc = "backups"
    /\ IF validVersions = <<>>
       THEN /\ validVersions' = <<currentVersion>>
            /\ numberOfVersions' = GetNumberOfVersions
            /\ i' = 0
            /\ pc' = "versions"
            /\ registryReads' = ReadNumberOfVersions(registryReads)
       ELSE /\ pc' = "pick"
            /\ UNCHANGED <<validVersions, locals, registryReads>>
    /\ UNCHANGED <<regCount, currentVersion, backups, decisionTree, regressedMode,
                   config, timers, pending, endpoint, result, backupRet, priorGenRejects,
                   callbackCalls, second, recordedBy,
                   lastRead, isHealthyCall, queues>>

\* Mutation: the loop goes back over every registered version
GetPastVersion_NoCap ==
    /\ pc = "versions"
    /\ IF i < numberOfVersions - 1
       THEN /\ validVersions' = Append(validVersions, GetVersion(numberOfVersions - 2 - i))
            /\ i' = i + 1
            /\ registryReads' = ReadVersion(registryReads, numberOfVersions - 2 - i)
            /\ UNCHANGED pc
       ELSE /\ pc' = "pick"
            /\ UNCHANGED <<validVersions, i, registryReads>>
    /\ UNCHANGED <<regCount, currentVersion, backups, decisionTree, regressedMode,
                   config, timers, pending, endpoint, result, backupRet, numberOfVersions,
                   priorGenRejects,
                   callbackCalls, second, recordedBy,
                   lastRead, isHealthyCall, queues>>

\* selectFromBackups, lines 205-217: one turn of the loop over past versions
GetPastVersion ==
    /\ pc = "versions"
    /\ IF i < Min(PREVIOUS_VERSIONS_TO_CHECK, numberOfVersions - 1)
       THEN /\ validVersions' = Append(validVersions, GetVersion(numberOfVersions - 2 - i))
            /\ i' = i + 1
            /\ registryReads' = ReadVersion(registryReads, numberOfVersions - 2 - i)
            /\ UNCHANGED pc
       ELSE /\ pc' = "pick"
            /\ UNCHANGED <<validVersions, i, registryReads>>
    /\ UNCHANGED <<regCount, currentVersion, backups, decisionTree, regressedMode,
                   config, timers, pending, endpoint, result, backupRet, numberOfVersions,
                   priorGenRejects,
                   callbackCalls, second, recordedBy,
                   lastRead, isHealthyCall, queues>>

\* selectFromBackups, lines 223-281. A TypeError leaves select() through
\* super.select() before the callback is reached.
PickBackup ==
    /\ pc = "pick"
    /\ LET outcome == SelectFromBackupsOutcome(backups, validVersions)
       IN  /\ backupRet' = outcome.ret
           /\ IF outcome.regress
              THEN /\ Len(timers) < MaxTimers
                   /\ regressedMode' = TRUE
                   /\ timers' = EnterRegressedModeTimers(timers)
              ELSE UNCHANGED <<regressedMode, timers>>
           /\ IF outcome.ret = "TypeError"
              THEN /\ result' = "TypeError"
                   /\ pc' = "idle"
                   /\ UNCHANGED endpoint
              ELSE /\ endpoint' = outcome.ret
                   /\ pc' = "callback"
                   /\ UNCHANGED result
    /\ UNCHANGED <<regCount, currentVersion, validVersions, backups, decisionTree,
                   config, pending, locals, priorGenRejects,
                   callbackCalls, second, recordedBy,
                   lastRead, isHealthyCall, registryReads, queues>>

\* Mutation: select() falls back to a fixed provider instead of returning null
SelectResult_FallbackProvider(ep, callbackThrew) ==
    IF callbackThrew THEN "CallbackError" ELSE IF ep = NULL THEN EndpointNames[1] ELSE ep

\* Mutation: select() loses its return value
SelectResult_NoReturn(ep, callbackThrew) ==
    IF callbackThrew THEN "CallbackError" ELSE NULL

\* select(), lines 70-74: what the caller gets, given whether the callback threw
SelectResult(ep, callbackThrew) ==
    IF callbackThrew THEN "CallbackError" ELSE ep

\* select(), lines 71-73: the callback is given the endpoint and the trace
CallbackArguments(ep, tree) == [endpoint |-> ep, decisionTree |-> tree]

\* Mutation: a round that did not need selectFromBackups leaves regressed mode
Callback_ClearsRegressed ==
    /\ pc = "callback"
    /\ \E threw \in (IF selectionCallback = "set" THEN BOOLEAN ELSE {FALSE}) :
        result' = SelectResult(endpoint, threw)
    /\ callbackCalls' = IF selectionCallback = "set"
                        THEN Append(callbackCalls, CallbackArguments(endpoint, decisionTree))
                        ELSE callbackCalls
    /\ pc' = "idle"
    /\ regressedMode' = IF backupRet = "none" THEN FALSE ELSE regressedMode
    /\ UNCHANGED <<regCount, currentVersion, validVersions, backups, decisionTree,
                   config, timers, pending, endpoint, backupRet, locals,
                   priorGenRejects, second, recordedBy,
                   lastRead, isHealthyCall, registryReads, queues>>

\* select(), lines 70-75: the callback, when there is one, then return endpoint
Callback ==
    /\ pc = "callback"
    /\ \E threw \in (IF selectionCallback = "set" THEN BOOLEAN ELSE {FALSE}) :
        result' = SelectResult(endpoint, threw)
    /\ callbackCalls' = IF selectionCallback = "set"
                        THEN Append(callbackCalls, CallbackArguments(endpoint, decisionTree))
                        ELSE callbackCalls
    /\ pc' = "idle"
    /\ UNCHANGED <<regCount, currentVersion, validVersions, backups, decisionTree,
                   regressedMode, config, timers, pending, endpoint, backupRet, locals,
                   priorGenRejects, second, recordedBy,
                   lastRead, isHealthyCall, registryReads, queues>>

Next ==
    \/ RegisterVersion
    \/ TimerFire
    \/ Tick
    \/ StartSelect
    \/ Classify
    \/ ProbeError
    \/ BuildValidVersions
    \/ GetPastVersion
    \/ PickBackup
    \/ Callback

Spec == Init /\ [][Next]_vars

\* The JavaScript event loop: time passes while no timer is due, and a timer
\* that is due has its callback run. Nothing is assumed of the callers.
SpecLive == Spec /\ WF_vars(Tick) /\ WF_vars(TimerFire)

\* ... and a round in flight goes on: a probe that has not answered times
\* out, an awaited registry read resolves, synchronous code runs to its end.
\* No caller is required to call select().
SpecRound ==
    /\ SpecLive
    /\ WF_vars(ProbeError)
    /\ WF_vars(BuildValidVersions)
    /\ WF_vars(GetPastVersion)
    /\ WF_vars(PickBackup)
    /\ WF_vars(Callback)

\* The selector with a caller that also polls isInRegressedMode()
NextRead == Next \/ IsInRegressedModeCall

SpecRead == Init /\ [][NextRead]_vars

(* ------------- selectFromBackups over what isHealthy records ---------- *)
\* Responses of the service at the current generation, with a block lag
\* below, at and above UNHEALTHY_BLOCK_DIFF
LagResponses ==
    [status : {200}, service : {DISCOVERY_SERVICE_NAME}, version : {"1.2.2", "1.2.3"},
     block_difference : {50, UNHEALTHY_BLOCK_DIFF, 200}, slot_diff : {<<>>}]

\* The records isHealthy leaves for them under endpoint e: those of the
\* responses it rejects with addBackup
RecordsOf(e, curVersion, threshold) ==
    {BackupRecord(e, r) : r \in {q \in LagResponses :
                                    IsHealthyVerdict(q, curVersion, threshold) = "backup"}}

\* The backup maps a round's probes can have left: no record, a record of
\* one endpoint, or records of two in either order
BackupMaps(curVersion, threshold) ==
    {<<>>}
    \cup {<<r>> : r \in UNION {RecordsOf(e, curVersion, threshold) : e \in Endpoints}}
    \cup {<<r1, r2>> : r1 \in RecordsOf(EndpointNames[1], curVersion, threshold),
                       r2 \in RecordsOf(EndpointNames[2], curVersion, threshold)}
    \cup {<<r2, r1>> : r1 \in RecordsOf(EndpointNames[1], curVersion, threshold),
                       r2 \in RecordsOf(EndpointNames[2], curVersion, threshold)}

\* A round without a healthy candidate is past the build and at the filter
InitPick ==
    /\ regCount = 2
    /\ currentVersion = "1.2.3"
    /\ validVersions = <<"1.2.3", "1.1.9">>
    /\ unhealthySlotDiffPlays \in SlotThresholds
    /\ backups \in BackupMaps(currentVersion, unhealthySlotDiffPlays)
    /\ decisionTree = <<>>
    /\ regressedMode = FALSE
    /\ timers = <<>>
    /\ selectionCallback = ConfiguredSelectionCallback
    /\ pc = "pick"
    /\ pending = {}
    /\ endpoint = "pending"
    /\ result = "pending"
    /\ backupRet = "none"
    /\ numberOfVersions = 2
    /\ i = 1
    /\ priorGenRejects = {}
    /\ callbackCalls = <<>>
    /\ pc2 = "idle"
    /\ pending2 = {}
    /\ endpoint2 = "pending"
    /\ result2 = "pending"
    /\ backupRet2 = "none"
    /\ numberOfVersions2 = 0
    /\ i2 = 0
    /\ recordedBy = [c \in 1..2 |-> {}]
    /\ lastRead = "none"
    /\ isHealthyArgs = NoArguments
    /\ isHealthyRet = "none"
    /\ registryReads = [getNumberOfVersions |-> 1, getVersion |-> <<0>>, failed |-> FALSE]
    /\ QueuesIdle

NextPick ==
    \/ PickBackup
    \/ Callback

SpecPick == InitPick /\ [][NextPick]_vars

(* ------------------------- registry calls that fail ------------------- *)
\* Mutation: a getVersion that rejects is swallowed and the call goes on
\* with the versions it has
GetVersionFails_Swallowed ==
    /\ pc = "versions"
    /\ i < Min(PREVIOUS_VERSIONS_TO_CHECK, numberOfVersions - 1)
    /\ registryReads' = ReadFailed(ReadVersion(registryReads, numberOfVersions - 2 - i))
    /\ pc' = "pick"
    /\ UNCHANGED <<regCount, currentVersion, validVersions, backups, decisionTree,
                   regressedMode, config, timers, pending, endpoint, result, backupRet,
                   locals, priorGenRejects, callbackCalls, second, recordedBy, lastRead,
                   isHealthyCall, queues>>

\* getNumberOfVersions rejects at line 202: this.validVersions was assigned
\* at line 201, nothing catches, selectFromBackups rejects and so does
\* select() at line 69.
GetNumberOfVersionsFails ==
    /\ pc = "backups"
    /\ validVersions = <<>>
    /\ validVersions' = <<currentVersion>>
    /\ registryReads' = ReadFailed(ReadNumberOfVersions(registryReads))
    /\ backupRet' = "RegistryError"
    /\ result' = "RegistryError"
    /\ pc' = "idle"
    /\ UNCHANGED <<regCount, currentVersion, backups, decisionTree, regressedMode,
                   config, timers, pending, endpoint, locals, priorGenRejects,
                   callbackCalls, second, recordedBy, lastRead, isHealthyCall, queues>>

\* getVersion rejects at line 210 in some turn of the loop: the versions
\* pushed so far stay in this.validVersions.
GetVersionFails ==
    /\ pc = "versions"
    /\ i < Min(PREVIOUS_VERSIONS_TO_CHECK, numberOfVersions - 1)
    /\ registryReads' = ReadFailed(ReadVersion(registryReads, numberOfVersions - 2 - i))
    /\ backupRet' = "RegistryError"
    /\ result' = "RegistryError"
    /\ pc' = "idle"
    /\ UNCHANGED <<regCount, currentVersion, validVersions, backups, decisionTree,
                   regressedMode, config, timers, pending, endpoint, locals,
                   priorGenRejects, callbackCalls, second, recordedBy, lastRead,
                   isHealthyCall, queues>>

\* The selector over a registry whose calls may reject
NextRegistryFailure ==
    \/ Next
    \/ GetNumberOfVersionsFails
    \/ GetVersionFails

SpecRegistryFailure == Init /\ [][NextRegistryFailure]_vars

(* -------------------- the valid versions, built on their own ----------- *)
\* A selector that has not built its valid versions enters selectFromBackups
\* for the first time; the registry holds any number of versions, none included.
InitVersionSet ==
    /\ regCount \in 0..Len(RegistryHistory)
    /\ currentVersion = IF regCount = 0 THEN NULL ELSE RegistryHistory[regCount]
    /\ validVersions = <<>>
    /\ backups = <<>>
    /\ decisionTree = <<>>
    /\ regressedMode = FALSE
    /\ timers = <<>>
    /\ unhealthySlotDiffPlays = ConfiguredSlotThreshold
    /\ selectionCallback = ConfiguredSelectionCallback
    /\ pc = "backups"
    /\ pending = {}
    /\ endpoint = "pending"
    /\ result = "pending"
    /\ backupRet = "none"
    /\ numberOfVersions = 0
    /\ i = 0
    /\ priorGenRejects = {}
    /\ callbackCalls = <<>>
    /\ pc2 = "idle"
    /\ pending2 = {}
    /\ endpoint2 = "pending"
    /\ result2 = "pending"
    /\ backupRet2 = "none"
    /\ numberOfVersions2 = 0
    /\ i2 = 0
    /\ recordedBy = [c \in 1..2 |-> {}]
    /\ lastRead = "none"
    /\ isHealthyArgs = NoArguments
    /\ isHealthyRet = "none"
    /\ registryReads = NoReads
    /\ QueuesIdle

\* Governance registers the next version of the longer history, at any
\* point of the build.
RegisterLaterVersion ==
    /\ regCount < Len(RegistryHistory)
    /\ regCount' = regCount + 1
    /\ UNCHANGED <<currentVersion, validVersions, backups, decisionTree, regressedMode,
                   config, timers, first, second, recordedBy, lastRead, isHealthyCall,
                   registryReads, queues>>

NextVersionSet ==
    \/ BuildValidVersions
    \/ GetPastVersion
    \/ RegisterLaterVersion

SpecVersionSet == InitVersionSet /\ [][NextVersionSet]_vars

(* ----------------------- isHealthy, called on its own ------------------ *)
\* A field that is not in the payload reads as undefined
UNDEFINED == "undefined"

\* What a probe may come back with, well-formed or not.  The numbers are
\* <<n>>, or <<>> when the field (or plays, or plays.tx_info) is absent.
RawServices == {"discovery-node", "content-node", UNDEFINED}
RawVersions == {"1.2.2", "1.2.3", "1.3.0", "garbage", UNDEFINED}
RawBlockDiffs == {<<>>, <<50>>, <<100>>, <<200>>}
RawSlotDiffs == {<<>>, <<5>>, <<9>>}

\* response.config.url: the health-check URL of a provider, which the roster
\* may give as an absolute URL or not
ProbedUrls == [endpoint : Endpoints, absolute : BOOLEAN]

\* urlMap: the probed URL to the canonical endpoint
UrlMap(url) == url.endpoint

\* Responses with a data.data payload; db tells whether data.data.db is there
PayloadResponses ==
    [status : ResponseStatuses, payload : {TRUE}, service : RawServices,
     version : RawVersions, block_difference : RawBlockDiffs,
     slot_diff : RawSlotDiffs, db : BOOLEAN, url : ProbedUrls]

\* Responses without a data.data payload
BareResponses ==
    [status : ResponseStatuses, payload : {FALSE}, service : {UNDEFINED},
     version : {UNDEFINED}, block_difference : {<<>>},
     slot_diff : {<<>>}, db : {FALSE}, url : ProbedUrls]

RawResponses == PayloadResponses \cup BareResponses

\* this.monitoringCallbacks.healthCheck: not configured, or a function that
\* returns, or one that throws
MonitoringCallbacks == {"absent", "returns", "throws"}

IsHealthyArguments ==
    [called : {TRUE}, response : RawResponses, monitoring : MonitoringCallbacks]

\* The response as the checks of lines 127-162 read it.  undefined > n is
\* false for every n, as 0 > n is for the thresholds: a missing
\* block_difference passes the block check.
Checked(raw) ==
    [status |-> raw.status, service |-> raw.service, version |-> raw.version,
     block_difference |-> IF raw.block_difference = <<>> THEN 0
                          ELSE raw.block_difference[1],
     slot_diff |-> raw.slot_diff]

\* Lines 98-125: new URL(response.config.url) is outside the try block,
\* the record literal and the callback are inside it.
TelemetryOutcome(raw, monitoring) ==
    IF monitoring = "absent" THEN "skipped"
    ELSE IF ~raw.url.absolute THEN "TypeError"
    ELSE IF ~raw.db THEN "swallowed"
    ELSE IF monitoring = "throws" THEN "swallowed"
    ELSE "emitted"

\* isHealthy, lines 90-165: what the call returns ("true", "false") or that
\* it throws ("TypeError"), and whether it called addBackup.
IsHealthyOutcome(raw, curVersion, threshold, monitoring) ==
    IF ~raw.payload THEN [ret |-> "TypeError", backup |-> FALSE]
    ELSE IF TelemetryOutcome(raw, monitoring) = "TypeError"
    THEN [ret |-> "TypeError", backup |-> FALSE]
    ELSE LET verdict == IsHealthyVerdict(Checked(raw), curVersion, threshold)
         IN  [ret |-> IF verdict = "healthy" THEN "true" ELSE "false",
              backup |-> verdict = "backup"]

\* A selector in the middle of a round, current version 1.2.3, with any slot
\* threshold configuration, and one isHealthy call about to be made.
InitIsHealthy ==
    /\ regCount = 2
    /\ currentVersion = "1.2.3"
    /\ validVersions = <<>>
    /\ backups \in {<<>>, <<[endpoint |-> EndpointNames[1], version |-> "1.2.2",
                              block_difference |-> <<1000>>]>>}
    /\ decisionTree = <<>>
    /\ regressedMode = FALSE
    /\ timers = <<>>
    /\ unhealthySlotDiffPlays \in SlotThresholds
    /\ selectionCallback = ConfiguredSelectionCallback
    /\ pc = "probing"
    /\ pending = Endpoints
    /\ endpoint = "pending"
    /\ result = "pending"
    /\ backupRet = "none"
    /\ numberOfVersions = 0
    /\ i = 0
    /\ priorGenRejects = {}
    /\ callbackCalls = <<>>
    /\ pc2 = "idle"
    /\ pending2 = {}
    /\ endpoint2 = "pending"
    /\ result2 = "pending"
    /\ backupRet2 = "none"
    /\ numberOfVersions2 = 0
    /\ i2 = 0
    /\ recordedBy = [c \in 1..2 |-> {}]
    /\ lastRead = "none"
    /\ isHealthyArgs \in IsHealthyArguments
    /\ isHealthyRet = "none"
    /\ registryReads = NoReads
    /\ QueuesIdle

\* Mutation: the backup is recorded under the first endpoint of the roster,
\* whatever URL was probed
IsHealthyRun_WrongKey ==
    /\ isHealthyArgs.called
    /\ isHealthyRet = "none"
    /\ LET raw == isHealthyArgs.response
           out == IsHealthyOutcome(raw, currentVersion, unhealthySlotDiffPlays,
                                   isHealthyArgs.monitoring)
       IN  /\ isHealthyRet' = out.ret
           /\ backups' = IF out.backup
                         THEN AddBackup(backups, EndpointNames[1], raw) ELSE backups
    /\ UNCHANGED <<regCount, currentVersion, validVersions, decisionTree, regressedMode,
                   config, timers, first, second, recordedBy, lastRead, isHealthyArgs,
                   registryReads, queues>>

\* The call runs to its return or to the exception that leaves it
IsHealthyRun ==
    /\ isHealthyArgs.called
    /\ isHealthyRet = "none"
    /\ LET raw == isHealthyArgs.response
           out == IsHealthyOutcome(raw, currentVersion, unhealthySlotDiffPlays,
                                   isHealthyArgs.monitoring)
       IN  /\ isHealthyRet' = out.ret
           /\ backups' = IF out.backup
                         THEN AddBackup(backups, UrlMap(raw.url), raw) ELSE backups
    /\ UNCHANGED <<regCount, currentVersion, validVersions, decisionTree, regressedMode,
                   config, timers, first, second, recordedBy, lastRead, isHealthyArgs,
                   registryReads, queues>>

SpecIsHealthy == InitIsHealthy /\ [][IsHealthyRun]_vars

(* ----------------------- two overlapping select() calls ---------------- *)
\* A second caller calls select() on the same selector object while the first
\* call is between two of its awaits. It runs the same code on the same
\* fields: this.backups, this.decisionTree, this.currentVersion,
\* this.validVersions and the regressed flag are the object's, only the
\* position, the outstanding probes and the locals are the call's own.
StartSelect2 ==
    /\ pc2 = "idle"
    /\ \E roster \in SUBSET Endpoints :
        /\ pending2' = roster
        /\ pc2' = IF roster = {} THEN "callback" ELSE "probing"
        /\ endpoint2' = IF roster = {} THEN NULL ELSE "pending"
    /\ currentVersion' = GetCurrentVersion
    /\ backups' = <<>>
    /\ decisionTree' = <<>>
    /\ result2' = "pending"
    /\ backupRet2' = "none"
    /\ recordedBy' = [recordedBy EXCEPT ![2] = {}]
    /\ UNCHANGED <<regCount, validVersions, regressedMode, config, timers, locals2, first,
                   lastRead, isHealthyCall, registryReads, queues>>

AfterReject2(e) ==
    /\ pending2' = pending2 \ {e}
    /\ pc2' = IF pending2 \ {e} = {} THEN "backups" ELSE "probing"
    /\ UNCHANGED endpoint2

Classify2 ==
    /\ pc2 = "probing"
    /\ \E e \in pending2, response \in Responses :
        LET verdict == IsHealthyVerdict(response, currentVersion, unhealthySlotDiffPlays)
        IN  /\ backups' = IF verdict = "backup"
                          THEN AddBackup(backups, e, response) ELSE backups
            /\ decisionTree' = Append(decisionTree, [candidate |-> e, verdict |-> verdict])
            /\ IF IsHealthy(response, currentVersion, unhealthySlotDiffPlays)
               THEN /\ endpoint2' = e
                    /\ pending2' = {}
                    /\ pc2' = "callback"
               ELSE AfterReject2(e)
            /\ recordedBy' = IF verdict = "backup"
                             THEN [recordedBy EXCEPT ![2] = @ \cup {e}] ELSE recordedBy
    /\ UNCHANGED <<regCount, currentVersion, validVersions, regressedMode, config,
                   timers, result2, backupRet2, locals2, first,
                   lastRead, isHealthyCall, registryReads, queues>>

ProbeError2 ==
    /\ pc2 = "probing"
    /\ \E e \in pending2 :
        /\ decisionTree' = Append(decisionTree, [candidate |-> e, verdict |-> "error"])
        /\ AfterReject2(e)
    /\ UNCHANGED <<regCount, currentVersion, validVersions, backups, regressedMode,
                   config, timers, result2, backupRet2, locals2, first, recordedBy,
                   lastRead, isHealthyCall, registryReads, queues>>

BuildValidVersions2 ==
    /\ pc2 = "backups"
    /\ IF validVersions = <<>>
       THEN /\ validVersions' = <<currentVersion>>
            /\ numberOfVersions2' = GetNumberOfVersions
            /\ i2' = 0
            /\ pc2' = "versions"
            /\ registryReads' = ReadNumberOfVersions(registryReads)
       ELSE /\ pc2' = "pick"
            /\ UNCHANGED <<validVersions, locals2, registryReads>>
    /\ UNCHANGED <<regCount, currentVersion, backups, decisionTree, regressedMode,
                   config, timers, pending2, endpoint2, result2, backupRet2, first,
                   recordedBy,
                   lastRead, isHealthyCall, queues>>

GetPastVersion2 ==
    /\ pc2 = "versions"
    /\ IF i2 < Min(PREVIOUS_VERSIONS_TO_CHECK, numberOfVersions2 - 1)
       THEN /\ validVersions' = Append(validVersions, GetVersion(numberOfVersions2 - 2 - i2))
            /\ i2' = i2 + 1
            /\ registryReads' = ReadVersion(registryReads, numberOfVersions2 - 2 - i2)
            /\ UNCHANGED pc2
       ELSE /\ pc2' = "pick"
            /\ UNCHANGED <<validVersions, i2, registryReads>>
    /\ UNCHANGED <<regCount, currentVersion, backups, decisionTree, regressedMode,
                   config, timers, pending2, endpoint2, result2, backupRet2,
                   numberOfVersions2, first, recordedBy,
                   lastRead, isHealthyCall, queues>>

PickBackup2 ==
    /\ pc2 = "pick"
    /\ LET outcome == SelectFromBackupsOutcome(backups, validVersions)
       IN  /\ backupRet2' = outcome.ret
           /\ IF outcome.regress
              THEN /\ Len(timers) < MaxTimers
                   /\ regressedMode' = TRUE
                   /\ timers' = EnterRegressedModeTimers(timers)
              ELSE UNCHANGED <<regressedMode, timers>>
           /\ IF outcome.ret = "TypeError"
              THEN /\ result2' = "TypeError"
                   /\ pc2' = "idle"
                   /\ UNCHANGED endpoint2
              ELSE /\ endpoint2' = outcome.ret
                   /\ pc2' = "callback"
                   /\ UNCHANGED result2
    /\ UNCHANGED <<regCount, currentVersion, validVersions, backups, decisionTree,
                   config, pending2, locals2, first, recordedBy,
                   lastRead, isHealthyCall, registryReads, queues>>

Callback2 ==
    /\ pc2 = "callback"
    /\ \E threw \in (IF selectionCallback = "set" THEN BOOLEAN ELSE {FALSE}) :
        result2' = SelectResult(endpoint2, threw)
    /\ pc2' = "idle"
    /\ UNCHANGED <<regCount, currentVersion, validVersions, backups, decisionTree,
                   regressedMode, config, timers, pending2, endpoint2, backupRet2,
                   locals2, first, recordedBy,
                   lastRead, isHealthyCall, registryReads, queues>>

\* In the overlap each caller calls select() once; the second call's roster
\* has at most SecondRosterMax candidates.
FirstCall ==
    /\ result = "pending"
    /\ StartSelect

SecondCall ==
    /\ result2 = "pending"
    /\ StartSelect2
    /\ Cardinality(pending2') <= SecondRosterMax

\* Both calls, interleaved at their awaits
NextOverlap ==
    \/ FirstCall
    \/ Classify
    \/ ProbeError
    \/ BuildValidVersions
    \/ GetPastVersion
    \/ PickBackup
    \/ Callback
    \/ SecondCall
    \/ Classify2
    \/ ProbeError2
    \/ BuildValidVersions2
    \/ GetPastVersion2
    \/ PickBackup2
    \/ Callback2

SpecOverlap == Init /\ [][NextOverlap]_vars

(* ------------------ AsyncProcessingQueue.monitorProgress --------------- *)
\* How the task function settles: it resolves with a response
\* JSON.stringify serialises, resolves with one JSON.stringify throws on
\* (a circular structure, a BigInt), or rejects with an Error.
FuncOutcomes == {"resolved", "unserialisable", "rejected"}

\* redisClient.set(redisKey, JSON.stringify(state), 'EX', EXPIRATION_SECONDS)
RedisSet(store, j, status, resp) ==
    [store EXCEPT ![j] = [status |-> status, resp |-> resp]]

\* The selector of a content node that only runs its queues
SelectorIdle ==
    /\ regCount = 2
    /\ currentVersion = NULL
    /\ validVersions = <<>>
    /\ backups = <<>>
    /\ decisionTree = <<>>
    /\ regressedMode = FALSE
    /\ timers = <<>>
    /\ unhealthySlotDiffPlays = ConfiguredSlotThreshold
    /\ selectionCallback = ConfiguredSelectionCallback
    /\ pc = "idle"
    /\ pending = {}
    /\ endpoint = "pending"
    /\ result = "pending"
    /\ backupRet = "none"
    /\ numberOfVersions = 0
    /\ i = 0
    /\ priorGenRejects = {}
    /\ callbackCalls = <<>>
    /\ pc2 = "idle"
    /\ pending2 = {}
    /\ endpoint2 = "pending"
    /\ result2 = "pending"
    /\ backupRet2 = "none"
    /\ numberOfVersions2 = 0
    /\ i2 = 0
    /\ recordedBy = [c \in 1..2 |-> {}]
    /\ lastRead = "none"
    /\ isHealthyArgs = NoArguments
    /\ isHealthyRet = "none"
    /\ registryReads = NoReads

\* Bull has the jobs waiting; nothing is stored under their keys
InitAsync ==
    /\ SelectorIdle
    /\ QueuesIdle

\* monitorProgress, lines 214-225: the IN_PROGRESS state is written; a
\* redis write that rejects leaves monitorProgress before func is called.
MonitorProgressStart(j) ==
    /\ asyncJobs[j].pc = "waiting"
    /\ \E ok \in BOOLEAN :
        IF ok
        THEN /\ redisStore' = RedisSet(redisStore, j, "IN_PROGRESS", "none")
             /\ asyncJobs' = [asyncJobs EXCEPT ![j].pc = "func",
                                               ![j].writes = Append(@, "IN_PROGRESS")]
        ELSE /\ asyncJobs' = [asyncJobs EXCEPT ![j].pc = "returned",
                                               ![j].ret = "RedisError"]
             /\ UNCHANGED redisStore
    /\ UNCHANGED <<selector, queueCount, adders>>

\* line 229: await func({ logContext }, req) settles; a rejection goes to
\* the catch of line 238
TaskSettles(j) ==
    /\ asyncJobs[j].pc = "func"
    /\ \E o \in FuncOutcomes :
        asyncJobs' = [asyncJobs EXCEPT
                        ![j].outcome = o,
                        ![j].pc = IF o = "rejected" THEN "catch" ELSE "try",
                        ![j].caught = IF o = "rejected" THEN "TaskError" ELSE "none"]
    /\ UNCHANGED <<selector, redisStore, queueCount, adders>>

\* lines 230-237 and 254, still inside the try: JSON.stringify(state) and
\* the redis write; whatever they throw is caught at line 238
WriteDone(j) ==
    /\ asyncJobs[j].pc = "try"
    /\ IF asyncJobs[j].outcome = "unserialisable"
       THEN /\ asyncJobs' = [asyncJobs EXCEPT ![j].pc = "catch", ![j].caught = "TypeError"]
            /\ UNCHANGED redisStore
       ELSE \E ok \in BOOLEAN :
            IF ok
            THEN /\ redisStore' = RedisSet(redisStore, j, "DONE", "response")
                 /\ asyncJobs' = [asyncJobs EXCEPT ![j].pc = "returned",
                                                   ![j].ret = "response",
                                                   ![j].writes = Append(@, "DONE")]
            ELSE /\ asyncJobs' = [asyncJobs EXCEPT ![j].pc = "catch",
                                                   ![j].caught = "RedisError"]
                 /\ UNCHANGED redisStore
    /\ UNCHANGED <<selector, queueCount, adders>>

\* lines 238-252: the FAILED state with e.message is written and e is
\* rethrown; when this write rejects, its error leaves instead
WriteFailed(j) ==
    /\ asyncJobs[j].pc = "catch"
    /\ \E ok \in BOOLEAN :
        IF ok
        THEN /\ redisStore' = RedisSet(redisStore, j, "FAILED", asyncJobs[j].caught)
             /\ asyncJobs' = [asyncJobs EXCEPT ![j].pc = "returned",
                                               ![j].ret = asyncJobs[j].caught,
                                               ![j].writes = Append(@, "FAILED")]
        ELSE /\ asyncJobs' = [asyncJobs EXCEPT ![j].pc = "returned",
                                               ![j].ret = "RedisError"]
             /\ UNCHANGED redisStore
    /\ UNCHANGED <<selector, queueCount, adders>>

\* The processor of lines 124-141 runs up to MAX_CONCURRENCY jobs at a time
NextAsync ==
    \/ \E j \in Jobs : MonitorProgressStart(j)
    \/ \E j \in Jobs : TaskSettles(j)
    \/ \E j \in Jobs : WriteDone(j)
    \/ \E j \in Jobs : WriteFailed(j)

SpecAsync == InitAsync /\ [][NextAsync]_vars

(* --------------------------- RehydrateIpfsQueue ------------------------ *)
\* The two add methods: addRehydrateIpfsFromFsIfNecessaryTask and
\* addRehydrateIpfsDirFromFsIfNecessaryTask
PROCESS_NAMES == {"rehydrate_file", "rehydrate_dir"}

\* The queue has filled up to around MAX_COUNT, one accepted task at a time
InitRehydrate ==
    /\ SelectorIdle
    /\ redisStore = [j \in Jobs |-> NoValue]
    /\ asyncJobs = [j \in Jobs |-> NoJob]
    /\ queueCount \in {MAX_COUNT - 1, MAX_COUNT, MAX_COUNT + 1}
    /\ adders = [a \in Adders |-> NoAdd]

\* lines 50-51 and 68-69: a caller enters one of the add methods and its
\* await this.queue.count() resolves
AddTaskCounts(a) ==
    /\ adders[a].pc = "idle"
    /\ adders[a].ret = "none"
    /\ \E name \in PROCESS_NAMES :
        adders' = [adders EXCEPT ![a] = [pc |-> name, count |-> queueCount, ret |-> "none"]]
    /\ UNCHANGED <<selector, redisStore, asyncJobs, queueCount>>

\* lines 52-59 and 70-77: return without a job when the count read is over
\* MAX_COUNT, else this.queue.add and return the job
AddTaskAdds(a) ==
    /\ adders[a].pc \in PROCESS_NAMES
    /\ IF adders[a].count > MAX_COUNT
       THEN /\ adders' = [adders EXCEPT ![a].pc = "idle", ![a].ret = "undefined"]
            /\ UNCHANGED queueCount
       ELSE /\ adders' = [adders EXCEPT ![a].pc = "idle", ![a].ret = "job"]
            /\ queueCount' = queueCount + 1
    /\ UNCHANGED <<selector, redisStore, asyncJobs>>

\* A worker of lines 25-26 takes a task off the queue
TaskTaken ==
    /\ queueCount >= MAX_COUNT
    /\ queueCount' = queueCount - 1
    /\ UNCHANGED <<selector, redisStore, asyncJobs, adders>>

NextRehydrate ==
    \/ \E a \in Adders : AddTaskCounts(a)
    \/ \E a \in Adders : AddTaskAdds(a)
    \/ TaskTaken

SpecRehydrate == InitRehydrate /\ [][NextRehydrate]_vars

(* ------------------------------ properties ----------------------------- *)
\* Vocabulary of the properties, stated on the state alone.
Recorded(e) == \E k \in DOMAIN backups : backups[k].endpoint = e

\* The version has the major.minor of some entry of the valid version set
ValidGeneration(version) ==
    \E k \in DOMAIN validVersions :
        /\ SemverMajor(validVersions[k]) = SemverMajor(version)
        /\ SemverMinor(validVersions[k]) = SemverMinor(version)

\* Positions of the backups that survive the version filter
Eligible == {k \in DOMAIN backups : ValidGeneration(backups[k].version)}

\* ... and of those whose block lag is under the threshold
UnderThreshold ==
    {k \in Eligible : backups[k].block_difference < UNHEALTHY_BLOCK_DIFF}

\* selectFromBackups has returned or thrown in this round
BackupsRan == backupRet # "none"

\* Candidates this round's trace lists as healthy
HealthyCandidates ==
    {decisionTree[k].candidate : k \in {j \in DOMAIN decisionTree :
                                            decisionTree[j].verdict = "healthy"}}

\* C1: after the latest enterRegressedMode call, isInRegressedMode stays true
\* until that call's timeout has elapsed, also when an earlier call's timeout
\* elapses in between.
C1_RegressedUntilLastTriggerTimeout ==
    (timers # <<>> /\ timers[Len(timers)] > 0) => IsInRegressedMode

\* C2: at most one regressed-mode expiry timer is pending in every state.
C2_AtMostOnePendingTimer == Len(timers) <= 1

C4_EmptyFilteredReturnsNull ==
    [][(pc = "pick" /\ pc' # "pick" /\ Eligible = {}) =>
          /\ backupRet' = NULL
          /\ regressedMode' = regressedMode
          /\ timers' = timers]_vars

\* C5: an endpoint selectFromBackups returns is a recorded backup whose
\* major.minor matches an entry of the valid version set.
C5_ReturnedBackupIsOfValidGeneration ==
    backupRet \in Endpoints =>
        \E k \in Eligible : backups[k].endpoint = backupRet

\* selectFromBackups ran over a backup of no valid generation with a low lag
C5_FilteredOutWitness ==
    /\ BackupsRan
    /\ \E k \in DOMAIN backups :
        /\ ~ValidGeneration(backups[k].version)
        /\ backups[k].block_difference < UNHEALTHY_BLOCK_DIFF
        /\ backupRet # backups[k].endpoint

\* C6: when some filtered backup is under the lag threshold, selectFromBackups
\* returns one of them: none of them has a higher semantic version, and none
\* reporting the same version was recorded before it.
C6_NewestVersionUnderThresholdWins ==
    (BackupsRan /\ UnderThreshold # {}) =>
        \E k \in UnderThreshold :
            /\ backups[k].endpoint = backupRet
            /\ \A j \in UnderThreshold :
                /\ SemverCompare(backups[j].version, backups[k].version) <= 0
                /\ backups[j].version = backups[k].version => k <= j

\* The newer of two versions under the threshold won although recorded later
C6_NewerVersionWitness ==
    /\ BackupsRan
    /\ \E j, k \in UnderThreshold :
        /\ j < k
        /\ SemverCompare(backups[j].version, backups[k].version) < 0
        /\ backups[k].endpoint = backupRet

\* C7: when filtered backups exist and none is under the threshold,
\* selectFromBackups returns one whose block lag is numerically the smallest.
C7_LastResortPicksSmallestLag ==
    (BackupsRan /\ Eligible # {} /\ UnderThreshold = {}) =>
        \E k \in Eligible :
            /\ backups[k].endpoint = backupRet
            /\ \A j \in Eligible :
                backups[k].block_difference <= backups[j].block_difference

\* C8: in a round where a candidate was classified healthy, the endpoint the
\* round selects, and select() returns, is a candidate classified healthy and
\* none that was classified otherwise.
C8_HealthyCandidateIsSelected ==
    HealthyCandidates # {} =>
        /\ endpoint \in HealthyCandidates
        /\ \A k \in DOMAIN decisionTree :
            decisionTree[k].candidate = endpoint => decisionTree[k].verdict = "healthy"
        /\ (pc = "idle" /\ result # "CallbackError") => result = endpoint

\* select() returned the healthy candidate of a round that also rejected one
C8_HealthySelectedWitness ==
    /\ pc = "idle"
    /\ result \in HealthyCandidates
    /\ \E k \in DOMAIN decisionTree : decisionTree[k].verdict \in {"unhealthy", "backup"}

\* C9 as claimed: a candidate of a prior registered generation is kept as a
\* backup, and backup selection returns it when it is the only one kept.
C9_PriorGenerationIsBackupEligible ==
    /\ \A e \in priorGenRejects : Recorded(e)
    /\ (BackupsRan /\ priorGenRejects # {} /\ Len(backups) = Cardinality(priorGenRejects))
          => backupRet \in priorGenRejects

\* C9 as amended: a candidate whose major.minor differs from the current
\* version's is never recorded as a backup nor selected, also when a prior
\* version of the valid version set has its major.minor; a round that
\* recorded no backup does not enter regressed mode.
C9_PriorGenerationIsNeverBackup ==
    /\ [](\A e \in priorGenRejects :
            ~Recorded(e) /\ backupRet # e /\ endpoint # e /\ result # e)
    /\ [][(pc = "pick" /\ pc' # "pick" /\ backups = <<>>) =>
            regressedMode' = regressedMode /\ timers' = timers]_vars

\* The example: current 1.2.3, valid versions 1.2.3 and 1.1.9, one candidate
\* rejected outright, the other of generation 1.1, and backup selection ran
C9_ExampleWitness ==
    /\ currentVersion = "1.2.3"
    /\ validVersions = <<"1.2.3", "1.1.9">>
    /\ Len(decisionTree) = 2
    /\ Cardinality(priorGenRejects) = 1
    /\ \A k \in DOMAIN decisionTree : decisionTree[k].verdict = "unhealthy"
    /\ backups = <<>>
    /\ BackupsRan
    /\ ~regressedMode

\* C10: a selectionCallback that throws does not reach the caller of
\* select(): the call still returns the selected endpoint.
C10_CallbackFailureNeverPropagates ==
    (pc = "idle" /\ result # "pending" /\ backupRet # "TypeError") => result = endpoint

\* C11: with a selectionCallback configured, a round that has completed has
\* called it exactly once, with the round's endpoint (or null) and the
\* round's decision trace, whatever the outcome.
C11_CallbackOncePerCompletedRound ==
    (selectionCallback = "set" /\ pc = "idle" /\ result # "pending") =>
        callbackCalls = <<CallbackArguments(endpoint, decisionTree)>>

\* C12: two overlapping select() calls do not see each other's backups: an
\* endpoint a call gets from selectFromBackups is one that the call's own
\* probes of this round recorded as a backup.
C12_BackupReturnIsOwnRecord ==
    /\ backupRet \in Endpoints => backupRet \in recordedBy[1]
    /\ backupRet2 \in Endpoints => backupRet2 \in recordedBy[2]

\* C13: once regressed mode is entered, isInRegressedMode becomes false again
\* by the timers alone, whatever the callers do or do not do.
C13_RegressedModeExpires == regressedMode ~> ~regressedMode

\* Regressed mode is on and its timeout is due
C13_TimeoutDueWitness ==
    /\ regressedMode
    /\ Len(timers) = 1
    /\ Head(timers) = 0
    /\ pc = "idle"

\* C14: the regressed flag goes from true to false only in the step of a due
\* expiry timer; no step of a select() round clears it, a round that returns
\* a healthy candidate included.
C14_OnlyTimerClearsRegressedMode ==
    [][/\ (regressedMode /\ ~regressedMode') =>
            (timers # <<>> /\ Head(timers) = 0 /\ timers' = Tail(timers) /\ pc' = pc)
       /\ (pc' # pc /\ regressedMode) => regressedMode']_vars

\* select() has returned a healthy candidate while regressed mode is on
C14_HealthyWhileRegressedWitness ==
    /\ pc = "idle"
    /\ result \in HealthyCandidates
    /\ regressedMode
    /\ timers # <<>>

\* C15: a round in which a candidate was classified healthy never runs
\* selectFromBackups, and none of its steps changes the regressed flag or the
\* timers, also when other candidates of the round were recorded as backups.
C15_HealthyRoundSkipsBackupSelection ==
    /\ [](HealthyCandidates # {} => (~BackupsRan /\ pc \in {"callback", "idle"}))
    /\ [][(pc' # pc /\ HealthyCandidates' # {}) =>
            (regressedMode' = regressedMode /\ timers' = timers)]_vars

\* select() returned a healthy candidate and left a recorded backup unused
C15_UnusedBackupWitness ==
    /\ pc = "idle"
    /\ result \in HealthyCandidates
    /\ \E k \in DOMAIN backups : backups[k].endpoint # result
    /\ ~BackupsRan

\* A round over an empty roster, in progress or completed: nothing is
\* outstanding and nothing was classified.
EmptyRosterRound ==
    /\ pending = {}
    /\ decisionTree = <<>>
    /\ pc = "callback" \/ (pc = "idle" /\ result # "pending")

\* C16: with an empty roster select() resolves to null without a probe, with
\* an empty decision trace and without running selectFromBackups, returns
\* null (unless the selectionCallback throws, see C10), and none of the
\* round's steps changes the regressed flag or the timers.
C16_EmptyRosterReturnsNull ==
    /\ [][(pc = "idle" /\ pc' # "idle" /\ pending' = {}) =>
            /\ pc' = "callback"
            /\ endpoint' = NULL
            /\ decisionTree' = <<>>
            /\ regressedMode' = regressedMode
            /\ timers' = timers]_vars
    /\ [](EmptyRosterRound =>
            /\ endpoint = NULL
            /\ ~BackupsRan
            /\ backups = <<>>
            /\ pc = "idle" => result \in {NULL, "CallbackError"})
    /\ [][(EmptyRosterRound /\ pc' # pc /\ pc = "callback") =>
            /\ decisionTree' = <<>>
            /\ regressedMode' = regressedMode
            /\ timers' = timers]_vars

\* select() returned null for an empty roster while regressed mode was on
C16_EmptyRosterWitness ==
    /\ EmptyRosterRound
    /\ pc = "idle"
    /\ result = NULL
    /\ regressedMode

\* Candidates with an entry in this round's trace
TracedCandidates == {decisionTree[k].candidate : k \in DOMAIN decisionTree}

C18_BackupsAreOfThisRound ==
    /\ [][(pc = "idle" /\ pc' # "idle") => backups' = <<>>]_vars
    /\ [](\A k \in DOMAIN backups :
            [candidate |-> backups[k].endpoint, verdict |-> "backup"]
                \in {decisionTree[j] : j \in DOMAIN decisionTree})
    /\ [](backupRet \in Endpoints =>
            [candidate |-> backupRet, verdict |-> "backup"]
                \in {decisionTree[j] : j \in DOMAIN decisionTree})

\* A later round has backups of its own: regressed mode is still on from a
\* last-resort pick of an earlier round, and this round's selectFromBackups
\* returned a backup this round recorded.
C18_LaterRoundWitness ==
    /\ regressedMode
    /\ pc = "callback"
    /\ backupRet \in Endpoints
    /\ UnderThreshold # {}
    /\ Len(backups) = 1

\* Some probe of this round failed or never answered
SomeProbeUnanswered == \E k \in DOMAIN decisionTree : decisionTree[k].verdict = "error"

\* C19: a round in which some probe never answered still ends with a result,
\* an endpoint or null (a throwing selectionCallback apart, see C10).
C19_RoundEndsWithEndpointOrNull ==
    (pc = "idle" /\ result \notin {"pending", "CallbackError"} /\ SomeProbeUnanswered) =>
        result \in Endpoints \cup {NULL}

\* The part of C19 that holds whatever the outcome: a round in flight ends,
\* also when no candidate ever answers.
RoundTerminates == (pc # "idle") ~> (pc = "idle")

\* C20: a call of isInRegressedMode returns the regressed flag as it is and
\* changes nothing: not the flag, the timers, the backups, the decision
\* trace, the valid version set, nor anything else of the selector.
C20_IsInRegressedModeIsPureRead ==
    [][lastRead' # lastRead =>
          /\ lastRead' = Returned(regressedMode)
          /\ UNCHANGED <<regCount, currentVersion, validVersions, backups, decisionTree,
                         regressedMode, config, timers, first, second, recordedBy,
                         isHealthyCall, registryReads, queues>>]_vars

\* isInRegressedMode returned true in the middle of a round, with a timer
\* pending, backups recorded and the valid version set built
C20_ReadWhileRegressedWitness ==
    /\ lastRead = "true"
    /\ regressedMode
    /\ timers # <<>>
    /\ backups # <<>>
    /\ validVersions # <<>>
    /\ pc = "probing"

(* ------------------- properties of isHealthy on its own ---------------- *)
\* The response of the isHealthy call and what the claims say of it
Raw == isHealthyArgs.response
IsHealthyReturned == isHealthyRet \in {"true", "false"}
WellFormed ==
    /\ Raw.payload
    /\ Raw.service # UNDEFINED
    /\ Raw.version # UNDEFINED
    /\ Raw.block_difference # <<>>
StatusOk == Raw.status = 200
ServiceOk == Raw.service = DISCOVERY_SERVICE_NAME
VersionValid == Raw.version \in {"1.2.2", "1.2.3", "1.3.0"}
SameGeneration ==
    /\ VersionValid
    /\ SemverMajor(Raw.version) = SemverMajor(currentVersion)
    /\ SemverMinor(Raw.version) = SemverMinor(currentVersion)
PatchOk == VersionValid /\ SemverPatch(Raw.version) >= SemverPatch(currentVersion)
BlockDiffOk == Raw.block_difference # <<>> /\ Raw.block_difference[1] <= UNHEALTHY_BLOCK_DIFF
ThresholdConfigured == unhealthySlotDiffPlays.kind = "number"
SlotDiffOk ==
    \/ Raw.slot_diff = <<>>
    \/ ~ThresholdConfigured
    \/ Raw.slot_diff[1] <= unhealthySlotDiffPlays.value

\* C21: for a response that carries all its fields, isHealthy returns true
\* exactly when status, service, semver validity, major.minor, patch, block
\* lag and plays slot-diff all pass; and, the first failing check deciding,
\* it records a backup exactly when the first four pass and a later one fails.
C21_HealthyExactlyWhenAllChecksPass ==
    /\ []((IsHealthyReturned /\ WellFormed) =>
            (isHealthyRet = "true" <=>
                /\ StatusOk
                /\ ServiceOk
                /\ VersionValid
                /\ SameGeneration
                /\ PatchOk
                /\ BlockDiffOk
                /\ SlotDiffOk))
    /\ [][(isHealthyRet' \in {"true", "false"} /\ isHealthyRet = "none" /\ WellFormed) =>
            (backups' # backups =>
                /\ StatusOk /\ ServiceOk /\ SameGeneration
                /\ ~(PatchOk /\ BlockDiffOk /\ SlotDiffOk))]_vars

\* isHealthy returned true with the block lag at the threshold and the
\* slot-diff at its threshold
C21_HealthyAtThresholdsWitness ==
    /\ isHealthyRet = "true"
    /\ Raw.block_difference = <<UNHEALTHY_BLOCK_DIFF>>
    /\ ThresholdConfigured
    /\ Raw.slot_diff = <<unhealthySlotDiffPlays.value>>

\* The isHealthy call returns or throws in this step
IsHealthyEnds == isHealthyRet = "none" /\ isHealthyRet' # "none"
IsHealthyReturns == isHealthyRet = "none" /\ isHealthyRet' \in {"true", "false"}

\* The backup map holds this record, and no other record of the endpoint
RecordedAs(bk, service, version, lag) ==
    /\ \E k \in 1..Len(bk) :
          bk[k] = [endpoint |-> service, version |-> version, block_difference |-> lag]
    /\ Cardinality({k \in 1..Len(bk) : bk[k].endpoint = service}) = 1

\* The response fails one of the first four checks
EarlyReject ==
    /\ Raw.payload
    /\ ~(StatusOk /\ ServiceOk /\ VersionValid /\ SameGeneration)

\* The response passes the first four checks
PassesFirstFour == Raw.payload /\ StatusOk /\ ServiceOk /\ VersionValid /\ SameGeneration
LagPasses == Raw.block_difference = <<>> \/ Raw.block_difference[1] <= UNHEALTHY_BLOCK_DIFF

\* C22: a response rejected for its status, service name, invalid semver or
\* major.minor mismatch is not returned healthy and leaves the backup map as
\* it was, whatever its patch and block lag are.
C22_EarlyRejectRecordsNoBackup ==
    [][(IsHealthyEnds /\ EarlyReject) =>
          (isHealthyRet' # "true" /\ backups' = backups)]_vars

\* A response of the wrong service that is also behind on patch and lagging
\* was rejected, and no backup was recorded
C22_WrongServiceLaggingWitness ==
    /\ isHealthyRet = "false"
    /\ Raw.service = "content-node"
    /\ Raw.version = "1.2.2"
    /\ Raw.block_difference = <<200>>
    /\ backups = <<>>

\* C23: a response that passes the first four checks with a patch lower than
\* the current version's is unhealthy and is recorded as a backup under the
\* canonical endpoint of the probed URL, with its reported version and lag.
C23_PatchBehindIsBackup ==
    [][(IsHealthyReturns /\ PassesFirstFour /\ ~PatchOk) =>
          /\ isHealthyRet' = "false"
          /\ RecordedAs(backups', UrlMap(Raw.url), Raw.version, Raw.block_difference)]_vars

\* A provider behind on patch replaced the record the map held for it
C23_ReplacedRecordWitness ==
    /\ isHealthyRet = "false"
    /\ Raw.version = "1.2.2"
    /\ Raw.url.endpoint = EndpointNames[1]
    /\ backups = <<[endpoint |-> EndpointNames[1], version |-> "1.2.2",
                    block_difference |-> <<50>>]>>

\* C24: a response of the current generation and patch whose block lag is
\* above UNHEALTHY_BLOCK_DIFF is unhealthy and recorded as a backup; with a
\* lag of at most the threshold it is rejected only for its slot-diff.
C24_LagAboveThresholdIsBackup ==
    [][(IsHealthyReturns /\ PassesFirstFour /\ PatchOk /\ Raw.block_difference # <<>>) =>
          IF Raw.block_difference[1] > UNHEALTHY_BLOCK_DIFF
          THEN /\ isHealthyRet' = "false"
               /\ RecordedAs(backups', UrlMap(Raw.url), Raw.version, Raw.block_difference)
          ELSE isHealthyRet' = "false" => ~SlotDiffOk]_vars

\* An up-to-date provider lagging 200 blocks was recorded as a backup
C24_LaggingBackupWitness ==
    /\ isHealthyRet = "false"
    /\ Raw.version = "1.2.3"
    /\ Raw.block_difference = <<200>>
    /\ RecordedAs(backups, UrlMap(Raw.url), "1.2.3", <<200>>)

\* C25: a response that passes the first six checks is rejected, and
\* recorded as a backup, exactly when it carries a slot-diff, a slot
\* threshold is configured and the slot-diff is above it; otherwise it is
\* healthy and the backup map is left as it was.
C25_SlotDiffRejectsOnlyAboveConfiguredThreshold ==
    [][(IsHealthyReturns /\ PassesFirstFour /\ PatchOk /\ LagPasses) =>
          IF /\ Raw.slot_diff # <<>>
             /\ unhealthySlotDiffPlays.kind = "number"
             /\ Raw.slot_diff[1] > unhealthySlotDiffPlays.value
          THEN /\ isHealthyRet' = "false"
               /\ RecordedAs(backups', UrlMap(Raw.url), Raw.version, Raw.block_difference)
          ELSE /\ isHealthyRet' = "true"
               /\ backups' = backups]_vars

\* A slot-diff of 9 was accepted by a selector whose threshold was never set
C25_UnsetThresholdWitness ==
    /\ isHealthyRet = "true"
    /\ Raw.slot_diff = <<9>>
    /\ unhealthySlotDiffPlays.kind = "undefined"

\* What the call does when no healthCheck callback is configured
WithoutTelemetry ==
    IsHealthyOutcome(Raw, currentVersion, unhealthySlotDiffPlays, "absent")

\* C26: telemetry is best-effort: with a healthCheck callback that returns or
\* throws, isHealthy returns what it returns without the callback and leaves
\* the same backup map, and no exception of the telemetry step (building
\* its record included) leaves isHealthy.
C26_TelemetryIsBestEffort ==
    [][(IsHealthyEnds /\ Raw.payload) =>
          /\ isHealthyRet' = WithoutTelemetry.ret
          /\ backups' = IF WithoutTelemetry.backup
                        THEN AddBackup(backups, UrlMap(Raw.url), Raw) ELSE backups]_vars

\* The part of C26 that holds: when response.config.url is an absolute URL,
\* neither the callback nor the record literal changes the outcome.
TelemetryIsBestEffortForAbsoluteUrls ==
    [][(IsHealthyEnds /\ Raw.payload /\ Raw.url.absolute) =>
          /\ isHealthyRet' = WithoutTelemetry.ret
          /\ backups' = IF WithoutTelemetry.backup
                        THEN AddBackup(backups, UrlMap(Raw.url), Raw) ELSE backups]_vars

\* The response lacks a required field or its version does not parse
Malformed ==
    \/ ~Raw.payload
    \/ Raw.service = UNDEFINED
    \/ Raw.version \in {UNDEFINED, "garbage"}
    \/ Raw.block_difference = <<>>

\* C27: for a response without data payload, service, version or
\* block_difference, or with a version that does not parse, isHealthy
\* returns false (it neither throws nor returns true) and records no backup.
C27_MalformedResponseIsUnhealthyWithoutBackup ==
    [][(IsHealthyEnds /\ Malformed /\ isHealthyArgs.monitoring = "absent") =>
          (isHealthyRet' = "false" /\ backups' = backups)]_vars

\* The part of C27 that holds: with a data payload, a missing service or
\* version and an unparseable version are rejected without a backup.
MissingServiceOrVersionIsUnhealthy ==
    [][(IsHealthyEnds /\ Raw.payload /\ isHealthyArgs.monitoring = "absent"
          /\ (Raw.service = UNDEFINED \/ Raw.version \in {UNDEFINED, "garbage"})) =>
          (isHealthyRet' = "false" /\ backups' = backups)]_vars

(* ------------------------ failed probes in a round --------------------- *)
\* Candidates whose probe of this round failed at the transport level
FailedCandidates ==
    {decisionTree[k].candidate : k \in {j \in DOMAIN decisionTree :
                                            decisionTree[j].verdict = "error"}}

\* C28: a round in which a probe failed at the transport level has no backup
\* of the failed candidate and still completes with a healthy candidate, a
\* recorded backup, or null (a throwing selectionCallback apart, see C10).
C28_FailedProbeDoesNotAbortRound ==
    (pc = "idle" /\ result \notin {"pending", "CallbackError"} /\ FailedCandidates # {}) =>
        /\ \A e \in FailedCandidates : ~Recorded(e)
        /\ result \in HealthyCandidates \cup {backups[k].endpoint : k \in DOMAIN backups}
                       \cup {NULL}

\* The part of C28 that holds: the failed probe records no backup and the
\* round goes on with the candidates still outstanding, or to the backups
\* when none is; and a round never ends with a failed candidate.
FailedProbeLeavesRoundRunning ==
    /\ [][(Len(decisionTree') = Len(decisionTree) + 1
            /\ decisionTree'[Len(decisionTree')].verdict = "error") =>
              /\ backups' = backups
              /\ pending' = pending \ {decisionTree'[Len(decisionTree')].candidate}
              /\ pc' = IF pending' = {} THEN "backups" ELSE "probing"]_vars
    /\ [](\A e \in FailedCandidates : ~Recorded(e) /\ result # e)

(* --------------------- properties of the valid versions ---------------- *)
\* How many prior versions a registry of n versions gives: min(5, n - 1),
\* none when the registry holds no version
PriorCount(n) ==
    IF n <= 1 THEN 0
    ELSE IF n - 1 >= PREVIOUS_VERSIONS_TO_CHECK THEN PREVIOUS_VERSIONS_TO_CHECK
    ELSE n - 1

\* C29: built with n registered versions, the valid versions are the current
\* version followed by exactly min(5, n - 1) prior versions, read at indices
\* n - 2, n - 3, ... in that order; there are never more than 6, and no
\* index below 0 is read from the registry, n = 0 and n = 1 included.
C29_ValidVersionsAreCurrentAndPriorFive ==
    /\ Len(validVersions) <= PREVIOUS_VERSIONS_TO_CHECK + 1
    /\ \A k \in DOMAIN registryReads.getVersion : registryReads.getVersion[k] >= 0
    /\ pc = "pick" =>
          /\ Len(validVersions) = 1 + PriorCount(numberOfVersions)
          /\ validVersions[1] = currentVersion
          /\ registryReads.getVersion =
                [k \in 1..PriorCount(numberOfVersions) |-> numberOfVersions - 1 - k]
          /\ \A k \in 1..PriorCount(numberOfVersions) :
                validVersions[k + 1] = RegistryHistory[numberOfVersions - k]

\* The set was built against a registry of 8 versions: six entries
C29_EightVersionsWitness ==
    /\ pc = "pick"
    /\ numberOfVersions = 8
    /\ validVersions = <<"1.5.1", "1.5.0", "1.4.1", "1.4.0", "1.3.2", "1.3.1">>
    /\ registryReads.getVersion = <<6, 5, 4, 3, 2>>

\* The set was built against an empty registry: no version was read
EmptyRegistryWitness ==
    /\ pc = "pick"
    /\ numberOfVersions = 0
    /\ Len(validVersions) = 1
    /\ registryReads = [getNumberOfVersions |-> 1, getVersion |-> <<>>, failed |-> FALSE]

\* The first selectFromBackups call has built the valid versions
ValidVersionsBuilt == validVersions # <<>> /\ pc # "versions"

\* C30: the valid versions are computed at most once in a selector's life:
\* once the first selectFromBackups call has built them, no step reads
\* getNumberOfVersions or getVersion again or changes the set, whatever has
\* been registered since.
C30_ValidVersionsBuiltOnce ==
    /\ [](registryReads.getNumberOfVersions <= 1)
    /\ [][ValidVersionsBuilt =>
            (validVersions' = validVersions /\ registryReads' = registryReads)]_vars

\* A later round, begun after version 1.3.1 was registered, went through
\* selectFromBackups with the set built when the registry held two versions
C30_StaleSetWitness ==
    /\ pc = "idle"
    /\ BackupsRan
    /\ currentVersion = "1.3.1"
    /\ validVersions = <<"1.2.3", "1.1.9">>
    /\ registryReads = [getNumberOfVersions |-> 1, getVersion |-> <<0>>, failed |-> FALSE]

(* ------------------- properties of failing registry calls -------------- *)
\* C31: a getNumberOfVersions or getVersion call that fails during the
\* build makes selectFromBackups, and select(), reject with that failure: the
\* call returns no endpoint, does not enter regressed mode and arms no timer.
C31_RegistryFailurePropagates ==
    /\ [][(~registryReads.failed /\ registryReads'.failed) =>
            /\ backupRet' = "RegistryError"
            /\ result' = "RegistryError"
            /\ endpoint' \notin Endpoints
            /\ UNCHANGED <<regressedMode, timers>>]_vars
    /\ []((pc = "idle" /\ backupRet = "RegistryError") =>
            (result = "RegistryError" /\ endpoint \notin Endpoints /\ callbackCalls = <<>>))

\* getVersion failed in a round that had recorded a backup of a valid
\* generation: the round ended with the failure and regressed mode is off
C31_FailureWithBackupWitness ==
    /\ pc = "idle"
    /\ backupRet = "RegistryError"
    /\ Len(registryReads.getVersion) = 1
    /\ \E k \in DOMAIN backups : backups[k].version = "1.2.2"
    /\ ~regressedMode

\* Some call is about to filter the backups (line 223 onwards)
Filtering == pc = "pick" \/ pc2 = "pick"

\* C32: whenever a selectFromBackups call filters the backups, the valid
\* versions are complete: the current version and all min(5, n - 1) prior
\* versions of the registry (whose length n does not change while two calls
\* overlap here).
C32_FilterUsesCompleteSet ==
    Filtering => Len(validVersions) = 1 + PriorCount(GetNumberOfVersions)

\* The other case of C32: getNumberOfVersions failed in an earlier round, and
\* a later round filters against the current version of that round alone
PartialSetAfterFailure ==
    /\ pc = "pick"
    /\ registryReads.failed
    /\ registryReads.getVersion = <<>>
    /\ Len(validVersions) = 1
    /\ backups # <<>>

\* C33: whenever selectFromBackups filters the backups, the valid versions
\* contain the current version the round's getServices fetched, also when
\* the registry has moved on since the set was built.
C33_ValidVersionsHoldCurrentVersion ==
    pc = "pick" => \E k \in DOMAIN validVersions : validVersions[k] = currentVersion

(* ---------------- properties of the two lag comparisons ---------------- *)
\* Backups of a valid generation whose lag isHealthy does not reject
\* (blockDiff > UNHEALTHY_BLOCK_DIFF is false)
WithinLagOfIsHealthy ==
    {k \in Eligible : backups[k].block_difference <= UNHEALTHY_BLOCK_DIFF}

\* C34: the newest-version pass of selectFromBackups accepts exactly the
\* backups whose lag isHealthy does not reject: when there is one, lag equal
\* to the threshold included, the call returns such a backup from the
\* newest-version pass, without entering regressed mode; when there is none
\* the pass selects nothing.
C34_LagThresholdsAgree ==
    [][(pc = "pick" /\ pc' # "pick") =>
          IF WithinLagOfIsHealthy # {}
          THEN /\ backupRet' \in {backups[k].endpoint : k \in WithinLagOfIsHealthy}
               /\ UNCHANGED <<regressedMode, timers>>
          ELSE backupRet' = "TypeError" \/ regressedMode']_vars

\* The part of C34 that holds: away from the threshold itself the two
\* comparisons agree.
LagThresholdsAgreeAwayFromThreshold ==
    [][(pc = "pick" /\ pc' # "pick"
          /\ \A k \in DOMAIN backups : backups[k].block_difference # UNHEALTHY_BLOCK_DIFF) =>
          IF WithinLagOfIsHealthy # {}
          THEN /\ backupRet' \in {backups[k].endpoint : k \in WithinLagOfIsHealthy}
               /\ UNCHANGED <<regressedMode, timers>>
          ELSE backupRet' = "TypeError" \/ regressedMode']_vars

(* ----------------------- regressed flag and timers --------------------- *)
\* C35: in every reachable state, if the regressed flag is true then at
\* least one expiry timer is pending.
C35_RegressedFlagHasPendingTimer ==
    regressedMode => timers # <<>>

\* Regressed mode was entered a second time before the first timer ran:
\* the flag is true with two timers pending, the older one due first
C35_TwoTimersPendingWitness ==
    /\ regressedMode
    /\ Len(timers) = 2
    /\ timers[1] < timers[2]

(* ------------------------- what isHealthy changes ---------------------- *)
\* C36: one isHealthy call adds at most one backup record, only under the
\* canonical endpoint of the response it classifies; the records of the
\* other endpoints stay as and where they are; the regressed flag, the
\* timers, the current version and the valid versions do not change.
C36_IsHealthyTouchesOnlyItsOwnBackup ==
    [][IsHealthyEnds =>
          /\ Len(backups') \in {Len(backups), Len(backups) + 1}
          /\ \A k \in DOMAIN backups :
                \/ backups'[k] = backups[k]
                \/ /\ backups[k].endpoint = UrlMap(Raw.url)
                   /\ backups'[k].endpoint = UrlMap(Raw.url)
          /\ Len(backups') = Len(backups) + 1 =>
                backups'[Len(backups')].endpoint = UrlMap(Raw.url)
          /\ UNCHANGED <<regressedMode, timers, currentVersion, validVersions>>]_vars

\* A backup was recorded for the second endpoint next to the record the
\* map held for the first, which is as it was
C36_SecondRecordWitness ==
    /\ isHealthyRet = "false"
    /\ Len(backups) = 2
    /\ backups[1] = [endpoint |-> EndpointNames[1], version |-> "1.2.2",
                     block_difference |-> <<1000>>]
    /\ backups[2].endpoint = EndpointNames[2]
    /\ Raw.url.endpoint = EndpointNames[2]

(* ------------------- properties of monitorProgress --------------------- *)
\* The task function of job j resolved, or rejected
Resolved(j) == asyncJobs[j].outcome \in {"resolved", "unserialisable"}
Rejected(j) == asyncJobs[j].outcome = "rejected"

\* C37: the status under a job's key is IN_PROGRESS when its task function
\* runs; a job whose task function has settled and whose monitorProgress call
\* is over has written exactly one terminal status after IN_PROGRESS: DONE
\* with the response if and only if the function resolved, FAILED with the
\* error message if and only if it rejected, the error being rethrown.
C37_OneTerminalStatusPerJob ==
    \A j \in Jobs :
        /\ asyncJobs[j].pc = "func" => redisStore[j].status = "IN_PROGRESS"
        /\ (asyncJobs[j].pc = "returned" /\ Resolved(j)) =>
              /\ asyncJobs[j].writes = <<"IN_PROGRESS", "DONE">>
              /\ redisStore[j] = [status |-> "DONE", resp |-> "response"]
              /\ asyncJobs[j].ret = "response"
        /\ (asyncJobs[j].pc = "returned" /\ Rejected(j)) =>
              /\ asyncJobs[j].writes = <<"IN_PROGRESS", "FAILED">>
              /\ redisStore[j] = [status |-> "FAILED", resp |-> "TaskError"]
              /\ asyncJobs[j].ret = "TaskError"

\* No redis write of job j rejected
RedisHeld(j) == asyncJobs[j].caught # "RedisError" /\ asyncJobs[j].ret # "RedisError"

\* The part of C37 that holds: with a response JSON.stringify serialises and
\* redis writes that go through, the statuses are as C37 says.
TerminalStatusWhenWritesGoThrough ==
    \A j \in Jobs :
        /\ asyncJobs[j].pc = "func" => redisStore[j].status = "IN_PROGRESS"
        /\ (asyncJobs[j].pc = "returned" /\ asyncJobs[j].outcome = "resolved"
              /\ RedisHeld(j)) =>
              /\ asyncJobs[j].writes = <<"IN_PROGRESS", "DONE">>
              /\ redisStore[j] = [status |-> "DONE", resp |-> "response"]
              /\ asyncJobs[j].ret = "response"
        /\ (asyncJobs[j].pc = "returned" /\ Rejected(j) /\ RedisHeld(j)) =>
              /\ asyncJobs[j].writes = <<"IN_PROGRESS", "FAILED">>
              /\ redisStore[j] = [status |-> "FAILED", resp |-> "TaskError"]
              /\ asyncJobs[j].ret = "TaskError"
        /\ Len(SelectSeq(asyncJobs[j].writes, LAMBDA w : w \in {"DONE", "FAILED"})) <= 1

\* A task function resolved and its job was marked FAILED
ResolvedButFailed ==
    \E j \in Jobs :
        /\ asyncJobs[j].pc = "returned"
        /\ asyncJobs[j].outcome = "unserialisable"
        /\ redisStore[j] = [status |-> "FAILED", resp |-> "TypeError"]

(* ------------------- properties of the rehydrate queue ----------------- *)
\* C38: a task is added only when the count read just before is at most
\* MAX_COUNT, a refused call returns no job and adds nothing, and under any
\* interleaving of the add calls the queue never holds more than
\* MAX_COUNT + 1 tasks.
C38_QueueBoundedByMaxCountPlusOne ==
    /\ [](queueCount <= MAX_COUNT + 1)
    /\ [][\A a \in Adders :
            (adders[a].pc \in PROCESS_NAMES /\ adders'[a].pc = "idle") =>
                IF adders[a].count <= MAX_COUNT
                THEN adders'[a].ret = "job" /\ queueCount' = queueCount + 1
                ELSE adders'[a].ret = "undefined" /\ queueCount' = queueCount]_vars

\* The part of C38 that holds: each call decides on the count it read.
AddDecidesOnCountRead ==
    [][\A a \in Adders :
         (adders[a].pc \in PROCESS_NAMES /\ adders'[a].pc = "idle") =>
             IF adders[a].count <= MAX_COUNT
             THEN adders'[a].ret = "job" /\ queueCount' = queueCount + 1
             ELSE adders'[a].ret = "undefined" /\ queueCount' = queueCount]_vars

\* Three calls that all read MAX_COUNT have all added their task
ThreeOverMaxCount == queueCount = MAX_COUNT + 3

====
